---- MODULE Spec2Model ----
(***************************************************************************)
(* Canteen menu management: the validation layer (zod schemas), the menu   *)
(* CRUD handlers of the admin pages (Firestore, Supabase) and of the HTTP  *)
(* route (Prisma), and the account operations (Cloud Functions callables,  *)
(* sign-up, first-login bootstrap).                                        *)
(*                                                                         *)
(* Text is modelled as a sequence of one-character strings, so that trim,  *)
(* the sanitizing regular expressions, parseFloat and the ordering of the  *)
(* listing are computed character by character as the code computes them.  *)
(***************************************************************************)
EXTENDS Integers, Sequences, FiniteSets, TLC

VARIABLES
  vIn,         \* validation run: the raw form input handed to menuItemSchema
  vOut,        \* validation run: the result of menuItemSchema.safeParse
  sIn,         \* sanitizing run: the text handed to sanitizeInput first
  sOut,        \* sanitizing run: the outputs of the successive applications
  cIn,         \* credential run: the raw form handed to signIn/signUpSchema
  cOut,        \* credential run: the result of the schema's safeParse
  variant,     \* which admin page / backend this deployment runs
  menu_items,  \* the catalog store: id -> stored record
  nextId,      \* the store's identifier generator
  now,         \* the server clock read by serverTimestamp() / now()
  user,        \* the session of the admin page (NoUser: anonymous)
  editItem,    \* admin page: the item being edited (NoItem: none)
  toast,       \* admin page: the last message shown to the user
  lastOp,      \* history: the last menu handler invocation and its outcome
  isSaving,    \* admin page: a save is pending (the submit button is disabled)
  inFlight,    \* the save writes sent to the backend and not yet answered
  authUsers,   \* identity provider: the uids of the existing accounts
  claims,      \* identity provider: uid -> role custom claim
  userDocs,    \* Firestore "users": uid -> role of the record
  adminUsers,  \* Firestore "admin_users" (super_admin/admin page): uid -> role
  selfReg,     \* history: accounts created by self-registration, untouched since
  lastCall,    \* history: the last callable request and its outcome
  lastBoot,    \* history: what bootstrapAdminUser returned when the latest
               \* account step ran it, NoBoot when that step ran none
  selectedLevel, \* public page: the level whose menu is selected
  indexItems,  \* public page: the items it holds (its state "items")
  viewStatus,  \* public page: "loading", "ready" or "error"
  viewSubs,    \* public page: the levels its open subscriptions listen to
  viewLevel,   \* history: the level the last delivery to the public page was
               \* made for, NoLevel since the selection changed
  items,       \* admin page: the items of its table (its state "items")
  adminSubClosed, \* admin page: its items listener was closed by an error
  net,         \* the responses of list requests on their way to a page
  signInLog,   \* history: the sign-in attempts the provider rejected, each
               \* with the message shown for it
  users,       \* admin page: the user list it holds (uid -> role)
  usersError,  \* admin page: the error of the user list (NoError: none)
  isUsersEmpty, \* admin page: the user collection was read and is empty
  lastFetch,   \* history: the last user listing call and what it returned
  clock,       \* the local time of the browser, in minutes since midnight
  mounted,     \* the app is mounted (FALSE: the page is being reloaded)
  lastCheck,   \* the minute of the app's mount or of its last interval check
  reloads      \* history: the reloads useAutoRefresh has triggered this day

viewVars == <<selectedLevel, indexItems, viewStatus, viewSubs, viewLevel>>
tableVars == <<items, adminSubClosed>>
usersVars == <<users, usersError, isUsersEmpty, lastFetch>>
refreshVars == <<clock, mounted, lastCheck, reloads>>
liveVars == <<viewVars, tableVars, net, signInLog, usersVars, refreshVars>>

vars == <<vIn, vOut, sIn, sOut, cIn, cOut, variant, menu_items, nextId, now,
          user, editItem, toast, lastOp, isSaving, inFlight, authUsers, claims,
          userDocs, adminUsers, selfReg, lastCall, lastBoot, liveVars>>

-----------------------------------------------------------------------------
(* Characters and strings                                                  *)

Digits == <<"0", "1", "2", "3", "4", "5", "6", "7", "8", "9">>
UpperCase ==
  <<"A", "B", "C", "D", "E", "F", "G", "H", "I", "J", "K", "L", "M",
    "N", "O", "P", "Q", "R", "S", "T", "U", "V", "W", "X", "Y", "Z">>
LowerCase ==
  <<"a", "b", "c", "d", "e", "f", "g", "h", "i", "j", "k", "l", "m",
    "n", "o", "p", "q", "r", "s", "t", "u", "v", "w", "x", "y", "z">>

Range(s) == { s[i] : i \in 1..Len(s) }

IndexOf(s, c) == CHOOSE i \in 1..Len(s) : s[i] = c

IsDigit(c) == c \in Range(Digits)
IsUpper(c) == c \in Range(UpperCase)
IsLower(c) == c \in Range(LowerCase)

\* \w of a JavaScript regular expression: [A-Za-z0-9_]
IsWordChar(c) == IsDigit(c) \/ IsUpper(c) \/ IsLower(c) \/ c = "_"

\* the white space String.prototype.trim removes (the model's texts hold
\* no other white space than the blank)
IsSpace(c) == c = " "

\* the UTF-16 code unit of a character of the model's alphabet
CharCode(c) ==
  CASE c = " " -> 32
    [] c = "-" -> 45
    [] c = "." -> 46
    [] IsDigit(c) -> 47 + IndexOf(Digits, c)
    [] c = ":" -> 58
    [] c = "<" -> 60
    [] c = "=" -> 61
    [] c = ">" -> 62
    [] c = "@" -> 64
    [] IsUpper(c) -> 64 + IndexOf(UpperCase, c)
    [] c = "_" -> 95
    [] IsLower(c) -> 96 + IndexOf(LowerCase, c)

ToLowerChar(c) == IF IsUpper(c) THEN LowerCase[IndexOf(UpperCase, c)] ELSE c

ToLowerCase(s) == [i \in 1..Len(s) |-> ToLowerChar(s[i])]

RECURSIVE TrimStart(_)
TrimStart(s) ==
  IF s # <<>> /\ IsSpace(Head(s)) THEN TrimStart(Tail(s)) ELSE s

RECURSIVE TrimEnd(_)
TrimEnd(s) ==
  IF s # <<>> /\ IsSpace(s[Len(s)]) THEN TrimEnd(SubSeq(s, 1, Len(s) - 1)) ELSE s

Trim(s) == TrimEnd(TrimStart(s))

\* s < t in the code-unit order of JavaScript, Firestore and SQLite BINARY
RECURSIVE StrLess(_, _)
StrLess(s, t) ==
  IF t = <<>> THEN FALSE
  ELSE IF s = <<>> THEN TRUE
  ELSE IF Head(s) = Head(t) THEN StrLess(Tail(s), Tail(t))
  ELSE CharCode(Head(s)) < CharCode(Head(t))

Repeat(c, n) == [i \in 1..n |-> c]

Min(S) == CHOOSE m \in S : \A k \in S : m <= k

-----------------------------------------------------------------------------
(* Validation layer                                                        *)

CatMainCourse == <<"M", "a", "i", "n", " ", "C", "o", "u", "r", "s", "e">>
CatDessert == <<"D", "e", "s", "s", "e", "r", "t">>
CatBeverage == <<"B", "e", "v", "e", "r", "a", "g", "e">>
CatSnacks == <<"S", "n", "a", "c", "k", "s">>
Level1 == <<"L", "e", "v", "e", "l", " ", "1">>
Level2 == <<"L", "e", "v", "e", "l", " ", "2">>
Level3 == <<"L", "e", "v", "e", "l", " ", "3">>

CATEGORIES == <<CatMainCourse, CatDessert, CatBeverage, CatSnacks>>
LEVELS == <<Level1, Level2, Level3>>

\* the caps of menuItemSchema
NameMax == 100
PriceMax == 10000

NotAngle(c) == c \notin {"<", ">"}

\* input.replace(/[<>]/g, "")
RemoveAngleBrackets(s) == SelectSeq(s, NotAngle)

JsProtocol == <<"j", "a", "v", "a", "s", "c", "r", "i", "p", "t", ":">>

\* whether the pattern (lower case) matches s at index i, ignoring case
MatchesAtIgnoreCase(s, i, pat) ==
  /\ i + Len(pat) - 1 <= Len(s)
  /\ \A k \in 1..Len(pat) : ToLowerChar(s[i + k - 1]) = pat[k]

\* the index of the leftmost match of the pattern at or after i, 0: none
NextProtocolMatch(s, i) ==
  LET starts == { k \in i..Len(s) : MatchesAtIgnoreCase(s, k, JsProtocol) }
  IN IF starts = {} THEN 0 ELSE Min(starts)

\* input.replace(/javascript:/gi, ""): the matches found scanning left to
\* right are removed, the scan resuming after each match
RECURSIVE RemoveProtocolFrom(_, _)
RemoveProtocolFrom(s, i) ==
  LET k == NextProtocolMatch(s, i)
  IN IF k = 0 THEN SubSeq(s, i, Len(s))
     ELSE SubSeq(s, i, k - 1) \o RemoveProtocolFrom(s, k + Len(JsProtocol))

RemoveJsProtocol(s) == RemoveProtocolFrom(s, 1)

\* the last index of the run of \w characters that starts at i (i - 1: none)
WordRunEnd(s, i) ==
  LET others == { k \in i..Len(s) : ~IsWordChar(s[k]) }
  IN IF others = {} THEN Len(s) ELSE Min(others) - 1

\* /on\w+=/i at index i: the index of the closing "=", 0 when there is no
\* match ("=" is no \w character, so the greedy \w+ takes the whole run)
HandlerMatchEnd(s, i) ==
  IF i + 1 <= Len(s) /\ ToLowerChar(s[i]) = "o" /\ ToLowerChar(s[i + 1]) = "n"
  THEN LET e == WordRunEnd(s, i + 2)
       IN IF e >= i + 2 /\ e + 1 <= Len(s) /\ s[e + 1] = "=" THEN e + 1 ELSE 0
  ELSE 0

NextHandlerMatch(s, i) ==
  LET starts == { k \in i..Len(s) : HandlerMatchEnd(s, k) # 0 }
  IN IF starts = {} THEN 0 ELSE Min(starts)

\* input.replace(/on\w+=/gi, "")
RECURSIVE RemoveHandlersFrom(_, _)
RemoveHandlersFrom(s, i) ==
  LET k == NextHandlerMatch(s, i)
  IN IF k = 0 THEN SubSeq(s, i, Len(s))
     ELSE SubSeq(s, i, k - 1) \o RemoveHandlersFrom(s, HandlerMatchEnd(s, k) + 1)

RemoveEventHandlers(s) == RemoveHandlersFrom(s, 1)

sanitizeInput(input) ==
  Trim(RemoveEventHandlers(RemoveJsProtocol(RemoveAngleBrackets(input))))

\* A JavaScript number: NaN, or the decimal fraction num / den (den a power
\* of ten, the fraction in lowest decimal form)
NaN == [nan |-> TRUE, num |-> 0, den |-> 1]

Num(n, d) == [nan |-> FALSE, num |-> n, den |-> d]

RECURSIVE DigitPrefix(_)
DigitPrefix(s) ==
  IF s # <<>> /\ IsDigit(Head(s)) THEN <<Head(s)>> \o DigitPrefix(Tail(s)) ELSE <<>>

RECURSIVE DigitsValue(_)
DigitsValue(ds) ==
  IF ds = <<>> THEN 0
  ELSE 10 * DigitsValue(SubSeq(ds, 1, Len(ds) - 1)) + (IndexOf(Digits, ds[Len(ds)]) - 1)

RECURSIVE StripTrailingZeros(_)
StripTrailingZeros(ds) ==
  IF ds # <<>> /\ ds[Len(ds)] = "0"
  THEN StripTrailingZeros(SubSeq(ds, 1, Len(ds) - 1))
  ELSE ds

RECURSIVE Pow10(_)
Pow10(k) == IF k = 0 THEN 1 ELSE 10 * Pow10(k - 1)

\* parseFloat: leading white space, an optional sign, digits, an optional
\* fraction; what follows the number is ignored; NaN when no digit is read
\* (the model's price texts hold no exponent and no "Infinity")
parseFloat(s) ==
  LET t == TrimStart(s)
      signed == t # <<>> /\ Head(t) \in {"-", "+"}
      u == IF signed THEN Tail(t) ELSE t
      ip == DigitPrefix(u)
      r == SubSeq(u, Len(ip) + 1, Len(u))
      fpRaw == IF r # <<>> /\ Head(r) = "." THEN DigitPrefix(Tail(r)) ELSE <<>>
      fp == StripTrailingZeros(fpRaw)
      mag == DigitsValue(ip) * Pow10(Len(fp)) + DigitsValue(fp)
  IN IF ip = <<>> /\ fpRaw = <<>> THEN NaN
     ELSE Num(IF signed /\ Head(t) = "-" THEN 0 - mag ELSE mag, Pow10(Len(fp)))

If(cond, msg) == IF cond THEN <<msg>> ELSE <<>>

\* z.string().trim().min(1, ..).max(100, ..): the checks run in order on
\* the trimmed text and each failing check adds its issue
NameIssues(raw) ==
  If(Len(Trim(raw)) < 1, "Name is required")
  \o If(Len(Trim(raw)) > NameMax, "Name must be less than 100 characters")

\* z.number().positive(..).max(10000, ..): NaN is a type error, which ends
\* the field's checks
PriceIssues(p) ==
  IF p.nan THEN <<"Expected number, received nan">>
  ELSE If(~(p.num > 0), "Price must be positive")
       \o If(p.num > PriceMax * p.den, "Price must be less than 10,000")

\* z.string().min(1, ..).refine(val => CATEGORIES.includes(val), ..): the
\* refinement runs also when min(1) has failed
CategoryIssues(c) ==
  If(Len(c) < 1, "Category is required")
  \o If(c \notin Range(CATEGORIES), "Invalid category")

LevelIssues(l) ==
  If(Len(l) < 1, "Canteen level is required")
  \o If(l \notin Range(LEVELS), "Invalid canteen level")

\* menuItemSchema.safeParse of {name, price, category, canteen_level}: the
\* issues of the four fields in the order of the object's keys; on success
\* the data, with the name trimmed and then transformed by sanitizeInput
menuItemSchema(x) ==
  LET issues == NameIssues(x.name) \o PriceIssues(x.price)
                \o CategoryIssues(x.category) \o LevelIssues(x.canteen_level)
  IN [success |-> issues = <<>>,
      errors |-> issues,
      data |-> [name |-> sanitizeInput(Trim(x.name)), price |-> x.price,
                category |-> x.category, canteen_level |-> x.canteen_level]]

\* the Supabase admin page's menuItemSchema: no sanitizing transform, no
\* price cap, and any non-empty category and level
menuItemSchemaSupabase(x) ==
  LET issues ==
        If(Len(Trim(x.name)) < 1, "Name is required")
        \o If(Len(Trim(x.name)) > NameMax, "String must contain at most 100 character(s)")
        \o (IF x.price.nan THEN <<"Expected number, received nan">>
            ELSE If(~(x.price.num > 0), "Price must be positive"))
        \o If(Len(x.category) < 1, "String must contain at least 1 character(s)")
        \o If(Len(x.canteen_level) < 1, "String must contain at least 1 character(s)")
  IN [success |-> issues = <<>>,
      errors |-> issues,
      data |-> [name |-> Trim(x.name), price |-> x.price,
                category |-> x.category, canteen_level |-> x.canteen_level]]

\* the copy of menuItemSchema the vitest suite defines and exercises: the
\* category and the level are only required to be non-empty
menuItemSchemaTests(x) ==
  LET issues == NameIssues(x.name) \o PriceIssues(x.price)
                \o If(Len(x.category) < 1, "Category is required")
                \o If(Len(x.canteen_level) < 1, "Canteen level is required")
  IN [success |-> issues = <<>>,
      errors |-> issues,
      data |-> [name |-> sanitizeInput(Trim(x.name)), price |-> x.price,
                category |-> x.category, canteen_level |-> x.canteen_level]]

-----------------------------------------------------------------------------
(* Credential validation: signInSchema, signUpSchema                       *)

\* the caps of the password checks
PasswordMin == 8
PasswordMax == 100

\* the index of the only "@" of the text, 0 when it has none or several
AtIndex(s) ==
  LET ats == { i \in 1..Len(s) : s[i] = "@" }
  IN IF Cardinality(ats) = 1 THEN CHOOSE i \in ats : TRUE ELSE 0

IsAlnum(c) == IsDigit(c) \/ IsUpper(c) \/ IsLower(c)

\* ([A-Z0-9_'+\-\.]*)[A-Z0-9_+-] ignoring case: the part before the "@"
IsLocalPart(l) ==
  /\ Len(l) >= 1
  /\ \A k \in 1..Len(l) : IsAlnum(l[k]) \/ l[k] \in {"_", "'", "+", "-", "."}
  /\ IsAlnum(l[Len(l)]) \/ l[Len(l)] \in {"_", "+", "-"}

\* ([A-Z0-9][A-Z0-9\-]*\.)+[A-Z]{2,} ignoring case: labels that start with
\* a letter or a digit, each closed by a dot, then two letters or more
IsDomain(d) ==
  LET dots == { k \in 1..Len(d) : d[k] = "." }
  IN /\ dots # {}
     /\ LET last == CHOOSE k \in dots : \A j \in dots : j <= k
        IN /\ Len(d) - last >= 2
           /\ \A k \in (last + 1)..Len(d) : IsUpper(d[k]) \/ IsLower(d[k])
           /\ \A k \in 1..last :
                IF k = 1 \/ d[IF k = 1 THEN 1 ELSE k - 1] = "."
                THEN IsAlnum(d[k])
                ELSE IsAlnum(d[k]) \/ d[k] \in {"-", "."}

\* the check of z.string().email(): no leading dot, no two dots in a row,
\* a local part, one "@", a domain
IsEmail(s) ==
  LET a == AtIndex(s)
  IN /\ a # 0
     /\ s[1] # "."
     /\ \A k \in 1..(Len(s) - 1) : ~(s[k] = "." /\ s[k + 1] = ".")
     /\ IsLocalPart(SubSeq(s, 1, a - 1))
     /\ IsDomain(SubSeq(s, a + 1, Len(s)))

\* .trim().min(1, ..).email(..): the checks run on the trimmed text
EmailIssues(raw) ==
  If(Len(Trim(raw)) < 1, "Email is required")
  \o If(~IsEmail(Trim(raw)), "Invalid email format")

\* an e-mail field that forgets .toLowerCase()
EmailValueKeepCase(raw) == sanitizeInput(Trim(raw))

\* .trim() ... .toLowerCase().transform(sanitizeInput): the value of the
\* e-mail field after a successful parse
EmailValue(raw) == sanitizeInput(ToLowerCase(Trim(raw)))

\* the password of signInSchema: .min(1, ..).max(100, ..)
SignInPasswordIssues(p) ==
  If(Len(p) < 1, "Password is required")
  \o If(Len(p) > PasswordMax, "Password must be less than 100 characters")

\* a password check without the upper-case rule
PasswordIssuesNoUpper(p) ==
  If(Len(p) < PasswordMin, "Password must be at least 8 characters")
  \o If(Len(p) > PasswordMax, "Password must be less than 100 characters")
  \o If(~\E k \in 1..Len(p) : IsLower(p[k]),
        "Password must contain at least one lowercase letter")
  \o If(~\E k \in 1..Len(p) : IsDigit(p[k]), "Password must contain at least one number")

\* the password of signUpSchema: .min(8, ..).max(100, ..) and the three
\* .regex(..) checks, every failing check adding its issue
SignUpPasswordIssues(p) ==
  If(Len(p) < PasswordMin, "Password must be at least 8 characters")
  \o If(Len(p) > PasswordMax, "Password must be less than 100 characters")
  \o If(~\E k \in 1..Len(p) : IsUpper(p[k]),
        "Password must contain at least one uppercase letter")
  \o If(~\E k \in 1..Len(p) : IsLower(p[k]),
        "Password must contain at least one lowercase letter")
  \o If(~\E k \in 1..Len(p) : IsDigit(p[k]), "Password must contain at least one number")

Credentials(s, e, p, c) == [schema |-> s, email |-> e, password |-> p, confirmPassword |-> c]

\* signInSchema.safeParse of {email, password}
signInSchema(x) ==
  LET issues == EmailIssues(x.email) \o SignInPasswordIssues(x.password)
  IN [success |-> issues = <<>>,
      errors |-> issues,
      data |-> [email |-> EmailValue(x.email), password |-> x.password]]

\* signUpSchema.safeParse of {email, password, confirmPassword}: the issues
\* of the fields, then the refinement on the whole object
signUpSchema(x) ==
  LET issues == EmailIssues(x.email) \o SignUpPasswordIssues(x.password)
                \o If(Len(x.confirmPassword) < 1, "Please confirm your password")
                \o If(x.password # x.confirmPassword, "Passwords don't match")
  IN [success |-> issues = <<>>,
      errors |-> issues,
      data |-> [email |-> EmailValue(x.email), password |-> x.password,
                confirmPassword |-> x.confirmPassword]]

-----------------------------------------------------------------------------
(* Bounds and input samples                                                *)

\* how many fragments a name of the validation run is made of
MaxFrags == 2
\* the server clock stops the run here: every store write takes one tick
MaxTime == 3
\* how many items the catalog holds at most
MaxItems == 2
\* how many callable requests a run of the accounts sends
MaxCalls == 2

\* how many save writes the backend holds unanswered at most
MaxPending == 2
\* how many rejected sign-in attempts a run records
MaxAttempts == 2
\* how many fragments a text of the sanitizing run is made of
MaxParts == 3
\* how many minutes of the night a run of the auto refresh covers
MaxMinutes == 9
\* how many reloads of one night a run counts
MaxReloads == 3

\* useAutoRefresh: the hour of the refresh and the minutes of its window
targetHour == 3
RefreshWindow == 5

\* the first minute of a run, shortly before the window
FirstMinute == targetHour * 60 - 2

\* one short of the name cap, so that the names around the cap are made of
\* two fragments
Pad == Repeat("b", NameMax - 1)

NameFragments == { <<" ">>, <<"a">>, <<"<">>, <<"b", "b">>, Pad, <<" ">> \o Pad }

RECURSIVE NamesOf(_)
NamesOf(k) ==
  IF k = 0 THEN { <<>> }
  ELSE NamesOf(k - 1) \cup { n \o f : n \in NamesOf(k - 1), f \in NameFragments }

PriceValues ==
  { NaN, Num(0 - 5, 1), Num(0, 1), Num(1, 100), Num(85, 10), Num(PriceMax, 1),
    Num(PriceMax * 100 + 1, 100), Num(PriceMax + 5000, 1) }

CategoryValues ==
  Range(CATEGORIES) \cup
    { <<>>, <<"D", "r", "i", "n", "k", "s">>, <<"s", "n", "a", "c", "k", "s">> }

LevelValues == Range(LEVELS) \cup { <<>>, <<"L", "e", "v", "e", "l", " ", "9">> }

\* the inputs of the validation run
ValidateInputs ==
  [name : NamesOf(MaxFrags), price : PriceValues,
   category : CategoryValues, canteen_level : LevelValues]

\* the form contents (and HTTP bodies) the menu handlers are run with; the
\* price is the text of the form field
Form(n, p, c, l) == [name |-> n, price |-> p, category |-> c, canteen_level |-> l]

FormSamples ==
  { Form(<<"a">>, <<"8", ".", "5">>, CatMainCourse, Level1),
    Form(<<" ", "<", "b", ">", " ">>, <<"1", "2", ".", "5", "0">>, CatSnacks, Level2),
    Form(<<"a">>, <<"-", "5">>, CatMainCourse, Level1),
    Form(<<>>, <<"-", "5">>, CatSnacks, Level2),
    Form(<<"a">>, <<>>, CatMainCourse, Level1),
    Form(<<"a">>, <<"8", ".", "5">>, <<"D", "r", "i", "n", "k", "s">>,
         <<"L", "e", "v", "e", "l", " ", "9">>) }

NoForm == Form(<<>>, <<>>, <<>>, <<>>)

\* before safeParse has run: no verdict, no issue
NoInput == Form(<<>>, NaN, <<>>, <<>>)
NoResult == [success |-> FALSE, errors |-> <<>>, data |-> NoInput]

\* before a credential schema has run
NoCredentials == Credentials("none", <<>>, <<>>, <<>>)
NoVerdict == [success |-> FALSE, errors |-> <<>>, data |-> NoCredentials]

-----------------------------------------------------------------------------
(* Sessions, roles and the catalog store                                   *)

NoUser == "anonymous"
NoRole == "none"
NoLevel == <<"-">>
NoItem == 0

Uids == {"a1", "u2", "u3"}

VariantFirestore == "firestore"   \* src/pages/Admin.tsx on firebase-new
VariantRoster == "roster"         \* the admin_users page (super_admin/admin)
VariantSupabase == "supabase"     \* canteen-app/src/pages/Admin.tsx
VariantPrisma == "prisma"         \* the Next.js route on Prisma
VariantTests == "tests"           \* the vitest suite of the schemas

\* the menuItemSchema in scope in each of them
SchemaOf(v, x) ==
  CASE v = VariantSupabase -> menuItemSchemaSupabase(x)
    [] v = VariantTests -> menuItemSchemaTests(x)
    [] OTHER -> menuItemSchema(x)

\* getUserRole: the users record wins, the custom claim is the fallback
getUserRole(u) == IF userDocs[u] # NoRole THEN userDocs[u] ELSE claims[u]

\* canUserManageMenu
canUserManageMenu(role) == role \in {"admin", "content_manager"}

\* the write rule of the menu_items collection (firestore.rules)
RulesAllowMenuWrite(u) == u # NoUser /\ canUserManageMenu(getUserRole(u))

\* has_role(auth.uid(), 'admin'), which the Supabase policies and the page's
\* isAdmin rest on; the role rows of that deployment are held in userDocs
has_role_admin(u) == u # NoUser /\ userDocs[u] = "admin"

Item(n, p, c, l, t) ==
  [name |-> n, price |-> p, category |-> c, canteen_level |-> l, created_at |-> t]

\* a query that returns the newest document first, whatever its fields
NewestFirst(store, i, j) == i > j

\* orderBy canteen_level, category, name; the identifier breaks the ties
ItemBefore(store, i, j) ==
  LET a == store[i]
      b == store[j]
  IN IF a.canteen_level # b.canteen_level THEN StrLess(a.canteen_level, b.canteen_level)
     ELSE IF a.category # b.category THEN StrLess(a.category, b.category)
     ELSE IF a.name # b.name THEN StrLess(a.name, b.name)
     ELSE i < j

RECURSIVE SortIds(_, _)
SortIds(store, ids) ==
  IF ids = {} THEN <<>>
  ELSE LET first == CHOOSE i \in ids : \A j \in ids \ {i} : ItemBefore(store, i, j)
       IN <<first>> \o SortIds(store, ids \ {first})

Listed(store, i) == [id |-> i, item |-> store[i]]

\* the listing of the whole catalog, as the admin pages and GET /menu
\* without a level return it
list(store) ==
  LET ids == SortIds(store, DOMAIN store)
  IN [k \in 1..Len(ids) |-> Listed(store, ids[k])]

\* a store whose insert rewrites the rows it already holds
AddItemOverAll(store, id, item) == [i \in DOMAIN store \cup {id} |-> item]

\* addDoc / insert / create: the store assigns the identifier
AddItem(store, id, item) == [i \in DOMAIN store \cup {id} |-> IF i = id THEN item ELSE store[i]]

\* a store whose delete takes the later rows along
RemoveItemAndLater(store, id) == [i \in {j \in DOMAIN store : j < id} |-> store[i]]

\* deleteDoc / delete().eq("id", id) / prisma.menuItem.delete
RemoveItem(store, id) == [i \in DOMAIN store \ {id} |-> store[i]]

\* updateDoc(itemRef, payload) of handleSave: the payload carries created_at
UpdateDocPayload(store, id, d, t) ==
  [store EXCEPT ![id] = Item(d.name, d.price, d.category, d.canteen_level, t)]

\* update(payload).eq("id", id) / prisma.menuItem.update: the four fields
UpdateFields(store, id, d) ==
  [store EXCEPT ![id] = Item(d.name, d.price, d.category, d.canteen_level, @.created_at)]

Op(q, o, w, f, tg, snt, okay) ==
  [seq |-> q, op |-> o, who |-> w, form |-> f, target |-> tg, sent |-> snt, ok |-> okay]

NoOp == Op(0, "none", NoUser, NoForm, NoItem, FALSE, FALSE)

NoCall == [n |-> 0, fn |-> "none", caller |-> NoUser, target |-> NoUser, ok |-> FALSE]

Boot(r) == [ran |-> TRUE, success |-> r.success, isBootstrap |-> r.isBootstrap]

NoBoot == [ran |-> FALSE, success |-> FALSE, isBootstrap |-> FALSE]

\* a handler that shows the last issue instead
LastIssue(errors) == errors[Len(errors)]

\* err.errors[0].message
FirstIssue(errors) == errors[1]

-----------------------------------------------------------------------------
(* Initial states                                                          *)

InitValidationVars ==
  /\ vIn = NoInput
  /\ vOut = NoResult
  /\ sIn = <<>>
  /\ sOut = <<>>
  /\ cIn = NoCredentials
  /\ cOut = NoVerdict

valVars == <<vIn, vOut, sIn, sOut, cIn, cOut>>
saveVars == <<isSaving, inFlight>>
menuVars0 == <<menu_items, nextId, now, editItem, lastOp, saveVars>>
menuVars == <<menuVars0, liveVars>>
acctVars == <<authUsers, claims, userDocs, adminUsers, selfReg, lastCall, lastBoot>>

NoError == ""

\* what a user listing function hands back
Fetched(found, error, empty) == [users |-> found, error |-> error, isEmpty |-> empty]

NoFetch == [fn |-> "none"]

\* a list response on its way: the page it goes to, the level asked for
\* (<<>>: every level) and the listing the server answered with
Response(page, level, listing) == [to |-> page, level |-> level, data |-> listing]

\* the public page is mounted with Level 1 selected: the Firestore page has
\* subscribed to the level's query and shows its spinner, the Next.js page
\* has sent its first fetch (the catalog is still empty)
InitLiveVars ==
  /\ selectedLevel = Level1
  /\ indexItems = <<>>
  /\ viewStatus = IF variant = VariantFirestore THEN "loading" ELSE "ready"
  /\ viewSubs = IF variant = VariantFirestore THEN {Level1} ELSE {}
  /\ viewLevel = NoLevel
  /\ items = <<>>
  /\ adminSubClosed = FALSE
  /\ signInLog = {}
  /\ users = <<>>
  /\ usersError = NoError
  /\ isUsersEmpty = FALSE
  /\ lastFetch = NoFetch
  /\ clock = FirstMinute
  /\ mounted = TRUE
  /\ lastCheck = FirstMinute
  /\ reloads = 0
  /\ net = IF variant = VariantPrisma THEN {Response("MenuPage", Level1, <<>>)} ELSE {}

InitMenuVars ==
  /\ menu_items = <<>>
  /\ nextId = 1
  /\ now = 0
  /\ editItem = NoItem
  /\ lastOp = NoOp
  /\ isSaving = FALSE
  /\ inFlight = <<>>
  /\ InitLiveVars

\* a1 is an administrator and u2 a content manager, both with custom claim
\* and users record; u3 has no role: it is no account yet, or one that has
\* registered and whose first-login bootstrap has not written its record
InitAccountVars ==
  /\ toast = ""
  /\ claims = [u \in Uids |-> CASE u = "a1" -> "admin"
                                [] u = "u2" -> "content_manager"
                                [] OTHER -> NoRole]
  /\ userDocs = claims
  /\ adminUsers = [u \in Uids |-> IF u = "a1" THEN "super_admin" ELSE NoRole]
  /\ selfReg = {}
  /\ lastCall = NoCall
  /\ lastBoot = NoBoot

-----------------------------------------------------------------------------
(* The validation run: menuItemSchema.safeParse on one input               *)

InitValidate ==
  /\ vIn \in ValidateInputs
  /\ vOut = NoResult
  /\ sIn = <<>>
  /\ sOut = <<>>
  /\ cIn = NoCredentials
  /\ cOut = NoVerdict
  /\ variant \in {VariantFirestore, VariantSupabase, VariantTests}
  /\ authUsers = {"a1", "u2"}
  /\ user = NoUser
  /\ InitMenuVars
  /\ InitAccountVars

safeParse ==
  /\ vOut = NoResult
  /\ vOut' = SchemaOf(variant, vIn)
  /\ UNCHANGED <<vIn, sIn, sOut, cIn, cOut, variant, user, toast, menuVars, acctVars>>

NextValidate == safeParse

SpecValidate == InitValidate /\ [][NextValidate]_vars

-----------------------------------------------------------------------------
(* The credential run: signInSchema / signUpSchema.safeParse on one form   *)

EmailValues ==
  { <<"a", "@", "b", ".", "c", "o">>,
    <<"A", "@", "B", ".", "C", "o">>,
    <<" ", "a", "@", "b", ".", "c", "o", " ">>,
    <<>>,
    <<" ", " ">>,
    <<"a", "b">>,
    <<"a", "@", "b">>,
    <<"a", "@", "b", ".", "c">>,
    <<"a", ".", "@", "b", ".", "c", "o">>,
    <<".", "a", "@", "b", ".", "c", "o">>,
    <<"a", ".", ".", "b", "@", "c", ".", "d", "e">>,
    <<"a", "@", "-", "b", ".", "c", "o">>,
    <<"a", "@", "b", "@", "c", ".", "d", "e">>,
    <<"a", "<", "b", ">", "@", "c", ".", "d", "e">>,
    <<"<", "a", "@", "b", ".", "c", "o", ">">>,
    <<"a", "<", "@", "b", ".", "c", "o">>,
    <<"o", "n", "x", "=", "a", "@", "b", ".", "c", "o">>,
    <<"a", ".", "b", "+", "c", "@", "d", "-", "e", ".", "f", "1", ".", "g", "h">>,
    <<"a", "@", "b", ".", "c", "1">>,
    <<"j", "a", "v", "a", "s", "c", "r", "i", "p", "t", ":", "a", "@", "b", ".", "c", "o">> }

PasswordValues ==
  { <<"p", "a", "s", "s", "w", "o", "r", "d", "1">>,
    <<"P", "a", "s", "s", "w", "o", "r", "d", "1">>,
    <<"P", "a", "s", "s", "w", "o", "r", "d", "2">>,
    <<"P", "a", "s", "s", "w", "o", "r", "d">>,
    <<"P", "A", "S", "S", "W", "O", "R", "D", "1">>,
    <<"P", "a", "s", "s", "1">>,
    <<"P", "a", "s", "s", "w", "o", "r", "1">>,
    <<>>,
    <<" ", "P", "a", "s", "s", "w", "o", "r", "d", "1">>,
    <<"A", "1">> \o Repeat("b", PasswordMax - 2),
    <<"A", "1">> \o Repeat("b", PasswordMax - 1) }

CredentialInputs ==
  { Credentials("signIn", e, p, <<>>) : e \in EmailValues, p \in PasswordValues }
  \cup { Credentials("signUp", e, p, c) :
           e \in EmailValues, p \in PasswordValues, c \in PasswordValues }

InitCredentials ==
  /\ vIn = NoInput
  /\ vOut = NoResult
  /\ sIn = <<>>
  /\ sOut = <<>>
  /\ cIn \in CredentialInputs
  /\ cOut = NoVerdict
  /\ variant \in {VariantFirestore, VariantTests}
  /\ authUsers = {"a1", "u2"}
  /\ user = NoUser
  /\ InitMenuVars
  /\ InitAccountVars

signInSafeParse ==
  /\ cIn.schema = "signIn"
  /\ cOut = NoVerdict
  /\ cOut' = signInSchema(cIn)
  /\ UNCHANGED <<vIn, vOut, sIn, sOut, cIn, variant, user, toast, menuVars, acctVars>>

signUpSafeParse ==
  /\ cIn.schema = "signUp"
  /\ cOut = NoVerdict
  /\ cOut' = signUpSchema(cIn)
  /\ UNCHANGED <<vIn, vOut, sIn, sOut, cIn, variant, user, toast, menuVars, acctVars>>

NextCredentials == signInSafeParse \/ signUpSafeParse

SpecCredentials == InitCredentials /\ [][NextCredentials]_vars

-----------------------------------------------------------------------------
(* The sanitizing run: sanitizeInput on one text, and again on its output  *)
(* (the name of a stored item goes through sanitizeInput again each time   *)
(* the item is edited and saved)                                           *)

SanitizeFragments ==
  { <<" ">>, <<"a">>, <<"<">>, <<">">>, <<"o", "n">>, <<"x", "=">>,
    <<"o", "n", "x", "=">>, <<"j", "a", "v", "a">>,
    <<"s", "c", "r", "i", "p", "t", ":">>, JsProtocol,
    <<"J", "a", "v", "a", "S", "c", "r", "i", "p", "t", ":">>,
    <<"<", "s", "c", "r", "i", "p", "t", ">">> }

RECURSIVE TextsOf(_)
TextsOf(k) ==
  IF k = 0 THEN { <<>> }
  ELSE TextsOf(k - 1) \cup { n \o f : n \in TextsOf(k - 1), f \in SanitizeFragments }

InitSanitize ==
  /\ vIn = NoInput
  /\ vOut = NoResult
  /\ sIn \in TextsOf(MaxParts)
  /\ sOut = <<>>
  /\ cIn = NoCredentials
  /\ cOut = NoVerdict
  /\ variant = VariantFirestore
  /\ authUsers = {"a1", "u2"}
  /\ user = NoUser
  /\ InitMenuVars
  /\ InitAccountVars

\* sanitizeInput applied to the text, then to its own output
sanitize ==
  /\ Len(sOut) < 2
  /\ sOut' = Append(sOut, sanitizeInput(IF sOut = <<>> THEN sIn ELSE sOut[Len(sOut)]))
  /\ UNCHANGED <<vIn, vOut, sIn, cIn, cOut, variant, user, toast, menuVars, acctVars>>

NextSanitize == sanitize

SpecSanitize == InitSanitize /\ [][NextSanitize]_vars

-----------------------------------------------------------------------------
(* Sessions                                                                *)

\* a bootstrap that makes every first login an administrator
bootstrapAsAdmin(docs, u, written) ==
  IF u = NoUser THEN docs
  ELSE IF docs[u] # NoRole \/ ~written THEN docs ELSE [docs EXCEPT ![u] = "admin"]

\* bootstrapAdminUser, run by the auth state listener for the signed-in u:
\* a missing users record is created with the claim's role, content_manager
\* without a claim; a failed write is logged and leaves no record; without
\* a current user nothing is read or written
bootstrapAdminUser(docs, u, written) ==
  IF u = NoUser THEN docs
  ELSE IF docs[u] # NoRole \/ ~written THEN docs
  ELSE [docs EXCEPT ![u] = IF claims[u] # NoRole THEN claims[u] ELSE "content_manager"]

\* what bootstrapAdminUser returns
bootstrapResult(docs, u, written) ==
  IF u = NoUser THEN [success |-> FALSE, isBootstrap |-> FALSE]
  ELSE IF docs[u] # NoRole THEN [success |-> TRUE, isBootstrap |-> FALSE]
  ELSE [success |-> written, isBootstrap |-> written]

\* bootstrapAdminUser called for the current session: by the auth state
\* listener when the page loads with a persisted session (it shows the
\* welcome message after a bootstrap), or with no current user
bootstrapAdminUserRun(written) ==
  /\ variant = VariantFirestore
  /\ userDocs' = bootstrapAdminUser(userDocs, user, written)
  /\ lastBoot' = Boot(bootstrapResult(userDocs, user, written))
  /\ toast' = IF lastBoot'.isBootstrap
              THEN "Welcome! Your admin profile has been created."
              ELSE toast
  /\ UNCHANGED <<valVars, variant, user, menuVars, authUsers, claims, adminUsers,
                 selfReg, lastCall>>

\* FirebaseError.message, which the auth handlers show as it is
AuthErrorMessage(code) ==
  CASE code = "auth/user-not-found" -> "Firebase: Error (auth/user-not-found)."
    [] code = "auth/wrong-password" -> "Firebase: Error (auth/wrong-password)."
    [] code = "auth/invalid-credential" -> "Firebase: Error (auth/invalid-credential)."
    [] OTHER -> "Firebase: Error (auth/network-request-failed)."

\* handleSignIn with the credentials of account u; the identity provider
\* accepts them or not; on success the auth state listener sets the session
\* and runs the bootstrap
handleSignIn(u, accepted, written) ==
  /\ variant \in {VariantFirestore, VariantRoster}
  /\ user = NoUser
  /\ u \in authUsers
  /\ IF ~accepted
     THEN /\ toast' = AuthErrorMessage("auth/invalid-credential")
          /\ lastBoot' = NoBoot
          /\ UNCHANGED <<user, userDocs>>
     ELSE /\ user' = u
          /\ userDocs' = IF variant = VariantFirestore
                         THEN bootstrapAdminUser(userDocs, u, written)
                         ELSE userDocs
          /\ lastBoot' = IF variant = VariantFirestore
                         THEN Boot(bootstrapResult(userDocs, u, written))
                         ELSE NoBoot
          /\ toast' = IF userDocs' # userDocs
                      THEN "Welcome! Your admin profile has been created."
                      ELSE "Signed in successfully!"
  /\ UNCHANGED <<valVars, variant, menuVars, authUsers, claims, adminUsers,
                 selfReg, lastCall>>

\* handleSignOut; the Supabase page is left for /login and loses its state
handleSignOut ==
  /\ user # NoUser
  /\ user' = NoUser
  /\ toast' = IF variant = VariantSupabase THEN toast ELSE "Signed out successfully!"
  /\ editItem' = IF variant = VariantSupabase THEN NoItem ELSE editItem
  /\ lastBoot' = NoBoot
  /\ items' = IF variant \in {VariantFirestore, VariantRoster} THEN <<>> ELSE items
  /\ adminSubClosed' = FALSE
  /\ users' = IF variant = VariantFirestore THEN <<>> ELSE users
  /\ UNCHANGED <<valVars, saveVars, viewVars, net, signInLog, refreshVars, usersError, isUsersEmpty,
                 lastFetch, variant, menu_items, nextId, now, lastOp, authUsers, claims, userDocs, adminUsers, selfReg, lastCall>>

\* whether the page shows the menu form and the item list to the session
PageShowsMenu ==
  CASE variant = VariantSupabase -> has_role_admin(user)
    [] variant \in {VariantFirestore, VariantRoster} -> user # NoUser
    [] OTHER -> FALSE

startEdit(id) ==
  /\ PageShowsMenu
  /\ id \in DOMAIN menu_items
  /\ editItem' = id
  /\ UNCHANGED <<valVars, saveVars, liveVars, variant, user, toast, menu_items, nextId, now, lastOp,
                 acctVars>>

\* the Cancel button of the form
resetForm ==
  /\ PageShowsMenu
  /\ editItem # NoItem
  /\ editItem' = NoItem
  /\ UNCHANGED <<valVars, saveVars, liveVars, variant, user, toast, menu_items, nextId, now, lastOp,
                 acctVars>>

-----------------------------------------------------------------------------
(* Menu handlers of the admin pages                                        *)

ParsedForm(f) == Form(f.name, parseFloat(f.price), f.category, f.canteen_level)

NextSeq == 1 - lastOp.seq

\* handleSave of the Firestore page with the form holding f; the write is
\* taken by the backend (up) or fails
handleSave(f, up) ==
  /\ variant = VariantFirestore
  /\ PageShowsMenu
  /\ now < MaxTime
  /\ editItem = NoItem => Cardinality(DOMAIN menu_items) < MaxItems
  /\ LET parsed == menuItemSchema(ParsedForm(f))
         op == IF editItem # NoItem THEN "update" ELSE "create"
         taken == /\ up
                  /\ RulesAllowMenuWrite(user)
                  /\ editItem # NoItem => editItem \in DOMAIN menu_items
         d == parsed.data
     IN IF ~parsed.success
        THEN /\ toast' = FirstIssue(parsed.errors)
             /\ lastOp' = Op(NextSeq, op, user, f, editItem, FALSE, FALSE)
             /\ UNCHANGED <<menu_items, nextId, now, editItem>>
        ELSE IF ~taken
        THEN /\ toast' = "Failed to save item"
             /\ lastOp' = Op(NextSeq, op, user, f, editItem, TRUE, FALSE)
             /\ UNCHANGED <<menu_items, nextId, now, editItem>>
        ELSE IF editItem # NoItem
        THEN /\ menu_items' = UpdateDocPayload(menu_items, editItem, d, now)
             /\ toast' = "Item updated!"
             /\ lastOp' = Op(NextSeq, op, user, f, editItem, TRUE, TRUE)
             /\ now' = now + 1
             /\ editItem' = NoItem
             /\ UNCHANGED nextId
        ELSE /\ menu_items' = AddItem(menu_items, nextId,
                                Item(d.name, d.price, d.category, d.canteen_level, now))
             /\ toast' = "Item added!"
             /\ lastOp' = Op(NextSeq, op, user, f, nextId, TRUE, TRUE)
             /\ nextId' = nextId + 1
             /\ now' = now + 1
             /\ editItem' = NoItem
  /\ UNCHANGED <<valVars, saveVars, liveVars, variant, user, acctVars>>

\* handleDelete of the Firestore page for a listed item (the list may be
\* stale: deleteDoc of a missing document succeeds and changes nothing)
handleDelete(id, up) ==
  /\ variant = VariantFirestore
  /\ PageShowsMenu
  /\ now < MaxTime
  /\ id \in 1..(nextId - 1)
  /\ IF up /\ RulesAllowMenuWrite(user)
     THEN /\ menu_items' = RemoveItem(menu_items, id)
          /\ toast' = "Item deleted!"
          /\ lastOp' = Op(NextSeq, "delete", user, NoForm, id, TRUE, TRUE)
          /\ now' = now + 1
     ELSE /\ toast' = "Failed to delete item"
          /\ lastOp' = Op(NextSeq, "delete", user, NoForm, id, TRUE, FALSE)
          /\ UNCHANGED <<menu_items, now>>
  /\ UNCHANGED <<valVars, saveVars, liveVars, variant, user, nextId, editItem, acctVars>>

\* saveMutation of the Supabase page: update(payload).eq("id", id) matches no
\* row of a missing item and reports no error
saveMutation(f, up) ==
  /\ variant = VariantSupabase
  /\ PageShowsMenu
  /\ now < MaxTime
  /\ editItem = NoItem => Cardinality(DOMAIN menu_items) < MaxItems
  /\ LET parsed == menuItemSchemaSupabase(ParsedForm(f))
         op == IF editItem # NoItem THEN "update" ELSE "create"
         d == parsed.data
     IN IF ~parsed.success
        THEN /\ toast' = FirstIssue(parsed.errors)
             /\ lastOp' = Op(NextSeq, op, user, f, editItem, FALSE, FALSE)
             /\ UNCHANGED <<menu_items, nextId, now, editItem>>
        ELSE IF ~(up /\ has_role_admin(user))
        THEN /\ toast' = "Failed to save item"
             /\ lastOp' = Op(NextSeq, op, user, f, editItem, TRUE, FALSE)
             /\ UNCHANGED <<menu_items, nextId, now, editItem>>
        ELSE IF editItem # NoItem
        THEN /\ menu_items' = IF editItem \in DOMAIN menu_items
                              THEN UpdateFields(menu_items, editItem, d)
                              ELSE menu_items
             /\ toast' = "Item updated!"
             /\ lastOp' = Op(NextSeq, op, user, f, editItem, TRUE, TRUE)
             /\ now' = now + 1
             /\ editItem' = NoItem
             /\ UNCHANGED nextId
        ELSE /\ menu_items' = AddItem(menu_items, nextId,
                                Item(d.name, d.price, d.category, d.canteen_level, now))
             /\ toast' = "Item added!"
             /\ lastOp' = Op(NextSeq, op, user, f, nextId, TRUE, TRUE)
             /\ nextId' = nextId + 1
             /\ now' = now + 1
             /\ editItem' = NoItem
  /\ UNCHANGED <<valVars, saveVars, liveVars, variant, user, acctVars>>

\* deleteMutation of the Supabase page
deleteMutation(id, up) ==
  /\ variant = VariantSupabase
  /\ PageShowsMenu
  /\ now < MaxTime
  /\ id \in 1..(nextId - 1)
  /\ IF up /\ has_role_admin(user)
     THEN /\ menu_items' = RemoveItem(menu_items, id)
          /\ toast' = "Item deleted!"
          /\ lastOp' = Op(NextSeq, "delete", user, NoForm, id, TRUE, TRUE)
          /\ now' = now + 1
     ELSE /\ toast' = "Failed to delete item"
          /\ lastOp' = Op(NextSeq, "delete", user, NoForm, id, TRUE, FALSE)
          /\ UNCHANGED <<menu_items, now>>
  /\ UNCHANGED <<valVars, saveVars, liveVars, variant, user, nextId, editItem, acctVars>>

-----------------------------------------------------------------------------
(* The HTTP route /api/menu on Prisma                                      *)

\* parseInt(text): the integer the leading digits spell, NaN without one
parseInt(s) ==
  LET t == TrimStart(s)
      signed == t # <<>> /\ Head(t) \in {"-", "+"}
      u == IF signed THEN Tail(t) ELSE t
      ip == DigitPrefix(u)
  IN IF ip = <<>> THEN NaN
     ELSE Num(IF signed /\ Head(t) = "-" THEN 0 - DigitsValue(ip) ELSE DigitsValue(ip), 1)

\* the decimal text of a small identifier
IdText(i) == <<Digits[i + 1]>>

\* the id parameters a DELETE request is sent with: none, the identifiers
\* the store has handed out, and a text that is no number
IdParams == { <<>>, <<"x">> } \cup { IdText(i) : i \in 1..(nextId - 1) }

\* GET /api/menu?level=...: the items of the level (all without one), ordered
GET(level) ==
  LET ids == { i \in DOMAIN menu_items :
                 level = <<>> \/ menu_items[i].canteen_level = level }
      sorted == SortIds(menu_items, ids)
  IN [k \in 1..Len(sorted) |-> Listed(menu_items, sorted[k])]

\* the level query of the public page: where canteen_level == selectedLevel,
\* orderBy category, name
IndexQuery(level) ==
  LET ids == { i \in DOMAIN menu_items : menu_items[i].canteen_level = level }
      sorted == SortIds(menu_items, ids)
  IN [k \in 1..Len(sorted) |-> Listed(menu_items, sorted[k])]

\* POST /api/menu: prisma.menuItem.create with the body's fields; Prisma
\* refuses a NaN price and the request fails
POST(body) ==
  /\ variant = VariantPrisma
  /\ now < MaxTime
  /\ Cardinality(DOMAIN menu_items) < MaxItems
  /\ LET price == parseFloat(body.price)
     IN IF price.nan
        THEN /\ lastOp' = Op(NextSeq, "create", user, body, NoItem, TRUE, FALSE)
             /\ UNCHANGED <<menu_items, nextId, now>>
        ELSE /\ menu_items' = AddItem(menu_items, nextId,
                                Item(body.name, price, body.category, body.canteen_level, now))
             /\ lastOp' = Op(NextSeq, "create", user, body, nextId, TRUE, TRUE)
             /\ nextId' = nextId + 1
             /\ now' = now + 1
  /\ UNCHANGED <<valVars, saveVars, liveVars, variant, user, toast, editItem, acctVars>>

\* PUT /api/menu: prisma.menuItem.update where id = body.id (0: the body
\* has no id); a missing record or a NaN price makes the request fail
PUT(body, id) ==
  /\ variant = VariantPrisma
  /\ now < MaxTime
  /\ id \in 0..(nextId - 1)
  /\ LET price == parseFloat(body.price)
     IN IF price.nan \/ id \notin DOMAIN menu_items
        THEN /\ lastOp' = Op(NextSeq, "update", user, body, id, TRUE, FALSE)
             /\ UNCHANGED <<menu_items, now>>
        ELSE /\ menu_items' = UpdateFields(menu_items, id,
                                Form(body.name, price, body.category, body.canteen_level))
             /\ lastOp' = Op(NextSeq, "update", user, body, id, TRUE, TRUE)
             /\ now' = now + 1
  /\ UNCHANGED <<valVars, saveVars, liveVars, variant, user, toast, nextId, editItem, acctVars>>

\* DELETE /api/menu?id=...: 400 without an id, else prisma.menuItem.delete
\* where id = parseInt(id), which fails when there is no such record
DELETE(param) ==
  /\ variant = VariantPrisma
  /\ now < MaxTime
  /\ param \in IdParams
  /\ LET id == parseInt(param)
         target == IF id.nan THEN NoItem ELSE id.num
     IN IF param = <<>>
        THEN /\ lastOp' = Op(NextSeq, "delete", user, NoForm, NoItem, FALSE, FALSE)
             /\ UNCHANGED <<menu_items, now>>
        ELSE IF target \notin DOMAIN menu_items
        THEN /\ lastOp' = Op(NextSeq, "delete", user, NoForm, target, TRUE, FALSE)
             /\ UNCHANGED <<menu_items, now>>
        ELSE /\ menu_items' = RemoveItem(menu_items, target)
             /\ lastOp' = Op(NextSeq, "delete", user, NoForm, target, TRUE, TRUE)
             /\ now' = now + 1
  /\ UNCHANGED <<valVars, saveVars, liveVars, variant, user, toast, nextId, editItem, acctVars>>

-----------------------------------------------------------------------------
(* The menu specification                                                  *)

\* the Supabase page gets its session from the useAuth hook
InitMenu ==
  /\ InitValidationVars
  /\ variant \in {VariantFirestore, VariantSupabase, VariantPrisma}
  /\ InitMenuVars
  /\ InitAccountVars
  /\ authUsers = {"a1", "u2", "u3"}
  /\ user \in IF variant = VariantSupabase THEN authUsers \cup {NoUser} ELSE {NoUser}

NextMenu ==
  \/ \E u \in Uids, accepted \in BOOLEAN, written \in BOOLEAN :
       handleSignIn(u, accepted, written)
  \/ handleSignOut
  \/ \E id \in 1..MaxTime : startEdit(id)
  \/ resetForm
  \/ \E f \in FormSamples, up \in BOOLEAN : handleSave(f, up)
  \/ \E id \in 1..MaxTime, up \in BOOLEAN : handleDelete(id, up)
  \/ \E f \in FormSamples, up \in BOOLEAN : saveMutation(f, up)
  \/ \E id \in 1..MaxTime, up \in BOOLEAN : deleteMutation(id, up)
  \/ \E body \in FormSamples : POST(body)
  \/ \E body \in FormSamples, id \in 0..MaxTime : PUT(body, id)
  \/ \E param \in { <<>>, <<"x">> } \cup { IdText(i) : i \in 1..MaxTime } : DELETE(param)

SpecMenu == InitMenu /\ [][NextMenu]_vars

-----------------------------------------------------------------------------
(* Saving, step by step: the submission sends the write and the handler    *)
(* resumes when the backend answers.  The panels are the Firestore page,   *)
(* the Supabase page and the AdminPage of the Next.js version (README)     *)

SaveForms == { f \in FormSamples : f.name = <<"a">> }

\* whether the panel's submit button takes a submission: the two admin
\* pages disable it while a save is pending (disabled={isSaving},
\* disabled={saveMutation.isPending}); the AdminPage button is never disabled
SubmitEnabled ==
  CASE variant = VariantPrisma -> TRUE
    [] OTHER -> PageShowsMenu /\ ~isSaving

\* handleSubmit: the form is submitted with f in it.  handleSave and
\* saveMutation validate, flag the save as pending and send the write;
\* AdminPage.handleSubmit sends the request as it is
handleSubmit(f) ==
  /\ variant \in {VariantFirestore, VariantSupabase, VariantPrisma}
  /\ SubmitEnabled
  /\ Len(inFlight) < MaxPending
  /\ LET parsed == SchemaOf(variant, ParsedForm(f))
         op == IF editItem # NoItem THEN "update" ELSE "create"
     IN IF variant # VariantPrisma /\ ~parsed.success
        THEN /\ toast' = FirstIssue(parsed.errors)
             /\ lastOp' = Op(NextSeq, op, user, f, editItem, FALSE, FALSE)
             /\ UNCHANGED <<isSaving, inFlight>>
        ELSE /\ inFlight' = Append(inFlight,
                                 [form |-> f, target |-> editItem, who |-> user])
             /\ isSaving' = (variant # VariantPrisma)
             /\ UNCHANGED <<toast, lastOp>>
  /\ UNCHANGED <<valVars, liveVars, variant, user, menu_items, nextId, now, editItem,
                 acctVars>>

\* the backend answers the k-th pending write (up: it was reachable) and the
\* handler resumes after its await: the store takes the write or refuses
\* it, the page shows the outcome, resets the form and clears the flag
saveSettled(k, up) ==
  /\ k \in 1..Len(inFlight)
  /\ now < MaxTime
  /\ inFlight[k].target = NoItem => Cardinality(DOMAIN menu_items) < MaxItems
  /\ LET w == inFlight[k]
         f == w.form
         create == w.target = NoItem
         op == IF create THEN "create" ELSE "update"
         d == IF variant = VariantPrisma THEN ParsedForm(f)
              ELSE SchemaOf(variant, ParsedForm(f)).data
         allowed == CASE variant = VariantFirestore -> RulesAllowMenuWrite(w.who)
                      [] variant = VariantSupabase -> has_role_admin(w.who)
                      [] OTHER -> ~d.price.nan
         found == create \/ w.target \in DOMAIN menu_items
         taken == up /\ allowed /\ (found \/ variant = VariantSupabase)
         quiet == variant = VariantPrisma
     IN /\ inFlight' = SubSeq(inFlight, 1, k - 1) \o SubSeq(inFlight, k + 1, Len(inFlight))
        /\ isSaving' = FALSE
        /\ IF taken
           THEN /\ menu_items' =
                     IF create
                     THEN AddItem(menu_items, nextId,
                                  Item(d.name, d.price, d.category, d.canteen_level, now))
                     ELSE IF ~found THEN menu_items
                     ELSE IF variant = VariantFirestore
                     THEN UpdateDocPayload(menu_items, w.target, d, now)
                     ELSE UpdateFields(menu_items, w.target, d)
                /\ nextId' = IF create THEN nextId + 1 ELSE nextId
                /\ now' = now + 1
                /\ editItem' = NoItem
                /\ toast' = IF quiet THEN toast
                            ELSE IF create THEN "Item added!" ELSE "Item updated!"
                /\ lastOp' = Op(NextSeq, op, w.who, f,
                                IF create THEN nextId ELSE w.target, TRUE, TRUE)
           ELSE /\ toast' = IF quiet THEN toast ELSE "Failed to save item"
                /\ editItem' = IF quiet /\ up THEN NoItem ELSE editItem
                /\ lastOp' = Op(NextSeq, op, w.who, f, w.target, TRUE, FALSE)
                /\ UNCHANGED <<menu_items, nextId, now>>
  /\ UNCHANGED <<valVars, liveVars, variant, user, acctVars>>

NextSaving ==
  \/ \E u \in Uids, accepted \in BOOLEAN, written \in BOOLEAN :
       handleSignIn(u, accepted, written)
  \/ handleSignOut
  \/ \E id \in 1..MaxTime : startEdit(id)
  \/ resetForm
  \/ \E f \in SaveForms : handleSubmit(f)
  \/ \E k \in 1..MaxPending, up \in BOOLEAN : saveSettled(k, up)

SpecSaving == InitMenu /\ [][NextSaving]_vars

-----------------------------------------------------------------------------
(* The public page: Index.tsx listens to the selected level's query, the   *)
(* MenuPage of the Next.js version fetches /api/menu?level=... once per    *)
(* selection                                                               *)

\* handleLevelChange / setSelectedLevel, and the effect that follows the
\* new selection: Index.tsx unsubscribes, shows its spinner and subscribes
\* to the new level; MenuPage sends one more fetch and cancels nothing
handleLevelChange(level) ==
  /\ variant \in {VariantFirestore, VariantPrisma}
  /\ level # selectedLevel
  /\ selectedLevel' = level
  /\ viewLevel' = NoLevel
  /\ IF variant = VariantFirestore
     THEN /\ viewSubs' = (viewSubs \ {selectedLevel}) \cup {level}
          /\ viewStatus' = "loading"
          /\ UNCHANGED <<indexItems, net>>
     ELSE /\ Cardinality(net) < MaxPending
          /\ net' = net \cup {Response("MenuPage", level, GET(level))}
          /\ UNCHANGED <<indexItems, viewStatus, viewSubs>>
  /\ UNCHANGED <<valVars, variant, user, toast, menuVars0, acctVars, tableVars, signInLog, refreshVars, usersVars>>

\* a callback of Index.tsx's onSnapshot: the listener hands over the current
\* result of its query, or fails (the listener is closed then)
onSnapshotIndex(ok) ==
  /\ variant = VariantFirestore
  /\ \E l \in viewSubs :
       IF ok
       THEN /\ viewStatus = "loading" \/ indexItems # IndexQuery(l)
            /\ indexItems' = IndexQuery(l)
            /\ viewStatus' = IF viewStatus = "error" THEN "error" ELSE "ready"
            /\ viewLevel' = l
            /\ UNCHANGED viewSubs
       ELSE /\ viewStatus' = "error"
            /\ viewSubs' = viewSubs \ {l}
            /\ UNCHANGED <<indexItems, viewLevel>>
  /\ UNCHANGED <<valVars, variant, user, toast, menuVars0, acctVars, selectedLevel, net, tableVars, signInLog, refreshVars, usersVars>>

\* a callback of the admin page's onSnapshot (the listener is open while a
\* user is signed in): setItems with the whole catalog, or the error
\* callback, which logs and ends the loading state
onSnapshotAdmin(ok) ==
  /\ variant \in {VariantFirestore, VariantRoster}
  /\ user # NoUser
  /\ ~adminSubClosed
  /\ IF ok
     THEN /\ items # list(menu_items)
          /\ items' = list(menu_items)
          /\ UNCHANGED adminSubClosed
     ELSE /\ adminSubClosed' = TRUE
          /\ UNCHANGED items
  /\ UNCHANGED <<valVars, variant, user, toast, menuVars0, acctVars, viewVars, net, signInLog, refreshVars, usersVars>>

\* a fetch of MenuPage is answered: .then(data => setItems(data)); a
\* rejected fetch has no handler and changes nothing
fetchMenuPage(ok) ==
  /\ variant = VariantPrisma
  /\ \E m \in net :
       /\ m.to = "MenuPage"
       /\ net' = net \ {m}
       /\ IF ok
          THEN indexItems' = m.data /\ viewLevel' = m.level
          ELSE UNCHANGED <<indexItems, viewLevel>>
  /\ UNCHANGED <<valVars, variant, user, toast, menuVars0, acctVars, selectedLevel,
                 viewStatus, viewSubs, tableVars, signInLog, refreshVars, usersVars>>

ViewerForms == { f \in FormSamples : f.name = <<"a">> /\ f.price = <<"8", ".", "5">> }

NextViewer ==
  \/ \E level \in Range(LEVELS) : handleLevelChange(level)
  \/ \E ok \in BOOLEAN : onSnapshotIndex(ok)
  \/ \E ok \in BOOLEAN : fetchMenuPage(ok)
  \/ \E ok \in BOOLEAN : onSnapshotAdmin(ok)
  \/ handleSignOut
  \/ \E u \in {"a1"}, written \in BOOLEAN : handleSignIn(u, TRUE, written)
  \/ \E f \in ViewerForms : handleSave(f, TRUE)
  \/ \E id \in 1..MaxTime : handleDelete(id, TRUE)
  \/ \E body \in ViewerForms : POST(body)
  \/ \E id \in 1..MaxTime : DELETE(IdText(id))

InitViewer ==
  /\ InitValidationVars
  /\ variant \in {VariantFirestore, VariantPrisma}
  /\ InitMenuVars
  /\ InitAccountVars
  /\ authUsers = {"a1", "u2", "u3"}
  /\ user = NoUser

SpecViewer == InitViewer /\ [][NextViewer]_vars

\* the listeners deliver what they have to deliver and a sent response
\* arrives
SpecViewerFair ==
  /\ SpecViewer
  /\ WF_vars(onSnapshotIndex(TRUE))
  /\ WF_vars(onSnapshotAdmin(TRUE))
  /\ WF_vars(fetchMenuPage(TRUE))

-----------------------------------------------------------------------------
(* Account functions (Cloud Functions, firebase-admin)                     *)

\* the identity provider never hands out a uid twice: n can name a new
\* account only if no account and no record carries it
NewUid(n) ==
  /\ n \notin authUsers
  /\ claims[n] = NoRole
  /\ userDocs[n] = NoRole
  /\ adminUsers[n] = NoRole

Accounts(okay, a, c, d) == [ok |-> okay, auth |-> a, claims |-> c, docs |-> d]

Unchanged == Accounts(FALSE, authUsers, claims, userDocs)

\* the step of the function that throws (0: none does)
FailSteps == 0..3
FailStepsOfTwo == 0..2

\* createUser: auth.createUser, then setCustomUserClaims, then the users
\* record; a throwing step leaves the earlier ones done.  n is the uid the
\* identity provider would assign; an email in use makes auth.createUser throw
createUser(n, role, fail) ==
  IF n \in authUsers \/ fail = 1 THEN Unchanged
  ELSE IF fail = 2 THEN Accounts(FALSE, authUsers \cup {n}, claims, userDocs)
  ELSE IF fail = 3
       THEN Accounts(FALSE, authUsers \cup {n}, [claims EXCEPT ![n] = role], userDocs)
  ELSE Accounts(TRUE, authUsers \cup {n}, [claims EXCEPT ![n] = role],
                [userDocs EXCEPT ![n] = role])

\* deleteUser: both roles are read from the custom claims; an admin may not
\* delete an admin or a super admin; then auth.deleteUser, then the record
deleteUser(uid, callingUserUid, fail) ==
  LET callingUserRole == claims[callingUserUid]
      targetUserRole == claims[uid]
  IN IF uid \notin authUsers THEN Unchanged
     ELSE IF callingUserRole = "admin" /\ targetUserRole = "admin" THEN Unchanged
     ELSE IF callingUserRole = "admin" /\ targetUserRole = "super_admin" THEN Unchanged
     ELSE IF fail = 1 THEN Unchanged
     ELSE IF fail = 2
          THEN Accounts(FALSE, authUsers \ {uid}, [claims EXCEPT ![uid] = NoRole], userDocs)
     ELSE Accounts(TRUE, authUsers \ {uid}, [claims EXCEPT ![uid] = NoRole],
                   [userDocs EXCEPT ![uid] = NoRole])

\* updateUserRole: an admin may not modify an admin (custom claims); then
\* setCustomUserClaims, then update() of the users record, which throws when
\* there is no record
updateUserRole(uid, newRole, callingUserUid, fail) ==
  LET callingUserRole == claims[callingUserUid]
      targetUserRole == claims[uid]
  IN IF uid \notin authUsers THEN Unchanged
     ELSE IF callingUserRole = "admin" /\ targetUserRole = "admin" THEN Unchanged
     ELSE IF fail = 1 THEN Unchanged
     ELSE IF fail = 2 \/ userDocs[uid] = NoRole
          THEN Accounts(FALSE, authUsers, [claims EXCEPT ![uid] = newRole], userDocs)
     ELSE Accounts(TRUE, authUsers, [claims EXCEPT ![uid] = newRole],
                   [userDocs EXCEPT ![uid] = newRole])

\* a gate that lets content managers through
verifyAdminOrManager(uid) ==
  uid \in authUsers /\ claims[uid] \in {"admin", "super_admin", "content_manager"}

\* verifyAdmin: the custom claim is admin or super_admin; false when the
\* account cannot be read
verifyAdmin(uid) == uid \in authUsers /\ claims[uid] \in {"admin", "super_admin"}

Call(f, caller, target, okay) ==
  [n |-> lastCall.n + 1, fn |-> f, caller |-> caller, target |-> target, ok |-> okay]

\* the roles a request may carry: the two valid ones and none
RoleInputs == {"admin", "content_manager", NoRole}

\* the outcome r of an account function becomes the state; an account whose
\* role an administrator has set or removed no longer counts as
\* self-registered only
Apply(r, touched) ==
  /\ authUsers' = r.auth
  /\ claims' = r.claims
  /\ userDocs' = r.docs
  /\ selfReg' = IF <<r.auth, r.claims, r.docs>> # <<authUsers, claims, userDocs>>
                THEN selfReg \ {touched} ELSE selfReg

-----------------------------------------------------------------------------
(* Callables: request.auth is the caller (NoUser: unauthenticated)          *)

createUserCallable(caller, n, role, fail) ==
  /\ variant = VariantFirestore
  /\ lastCall.n < MaxCalls
  /\ n \in authUsers \/ NewUid(n)
  /\ LET refused == \/ caller = NoUser
                    \/ role = NoRole
                    \/ role \notin {"admin", "content_manager"}
                    \/ ~verifyAdmin(caller)
         r == IF refused THEN Unchanged ELSE createUser(n, role, fail)
     IN /\ Apply(r, n)
        /\ lastCall' = Call("createUser", caller, n, r.ok)
  /\ lastBoot' = NoBoot
  /\ UNCHANGED <<valVars, variant, user, toast, menuVars, adminUsers>>

\* uid = NoUser: the request carries no uid
deleteUserCallable(caller, uid, fail) ==
  /\ variant = VariantFirestore
  /\ lastCall.n < MaxCalls
  /\ LET refused == caller = NoUser \/ uid = NoUser \/ ~verifyAdmin(caller)
         r == IF refused THEN Unchanged ELSE deleteUser(uid, caller, fail)
     IN /\ Apply(r, uid)
        /\ lastCall' = Call("deleteUser", caller, uid, r.ok)
  /\ lastBoot' = NoBoot
  /\ UNCHANGED <<valVars, variant, user, toast, menuVars, adminUsers>>

updateUserRoleCallable(caller, uid, role, fail) ==
  /\ variant = VariantFirestore
  /\ lastCall.n < MaxCalls
  /\ LET refused == \/ caller = NoUser
                    \/ uid = NoUser
                    \/ role = NoRole
                    \/ role \notin {"admin", "content_manager"}
                    \/ ~verifyAdmin(caller)
         r == IF refused THEN Unchanged ELSE updateUserRole(uid, role, caller, fail)
     IN /\ Apply(r, uid)
        /\ lastCall' = Call("updateUserRole", caller, uid, r.ok)
  /\ lastBoot' = NoBoot
  /\ UNCHANGED <<valVars, variant, user, toast, menuVars, adminUsers>>

\* getUsers: the listing gives every account the role of its custom claim,
\* the role of its users record without a claim, content_manager without both
getUsers ==
  [u \in authUsers |->
     IF claims[u] # NoRole THEN claims[u]
     ELSE IF userDocs[u] # NoRole THEN userDocs[u]
     ELSE "content_manager"]

\* getUsers reads the accounts and the records and changes nothing
getUsersCallable(caller, fail) ==
  /\ variant = VariantFirestore
  /\ lastCall.n < MaxCalls
  /\ lastCall' = Call("getUsers", caller, NoUser,
                      caller # NoUser /\ verifyAdmin(caller) /\ ~fail)
  /\ UNCHANGED <<valVars, variant, user, toast, menuVars, authUsers, claims,
                 userDocs, adminUsers, selfReg>>
  /\ lastBoot' = NoBoot

-----------------------------------------------------------------------------
(* Account handlers of the pages                                           *)

\* useUserRole for the session u: the role of the users record, the claim's
\* without a record
useUserRole(u) == IF userDocs[u] # NoRole THEN userDocs[u] ELSE claims[u]

\* useAdminStatus: the users record decides, the claim only without a record
isAdmin == user # NoUser /\ getUserRole(user) = "admin"

\* CreateUserModal.handleSubmit on the secondary app: the account is created
\* and its users record written with the chosen role; no custom claim is set.
\* accepted: the identity provider takes the e-mail and password; written:
\* the record write goes through
CreateUserModal(n, role, accepted, written) ==
  /\ variant = VariantFirestore
  /\ isAdmin
  /\ NewUid(n)
  /\ role \in {"admin", "content_manager"}
  /\ IF ~accepted
     THEN /\ toast' = "Failed to create user"
          /\ UNCHANGED <<authUsers, userDocs>>
     ELSE /\ authUsers' = authUsers \cup {n}
          /\ userDocs' = IF written THEN [userDocs EXCEPT ![n] = role] ELSE userDocs
          /\ toast' = IF written THEN "User created successfully"
                      ELSE "Failed to create user"
  /\ UNCHANGED <<valVars, variant, user, menuVars, claims, adminUsers, selfReg,
                 lastCall>>
  /\ lastBoot' = NoBoot

\* handleSignUp of the Firestore page: createUserWithEmailAndPassword creates
\* the account and signs it in; the auth state listener then runs the
\* bootstrap for it
handleSignUp(n, accepted, written) ==
  /\ variant = VariantFirestore
  /\ user = NoUser
  /\ NewUid(n)
  /\ IF ~accepted
     THEN /\ toast' = "Failed to create account"
          /\ lastBoot' = NoBoot
          /\ UNCHANGED <<user, authUsers, userDocs, selfReg>>
     ELSE /\ authUsers' = authUsers \cup {n}
          /\ user' = n
          /\ userDocs' = bootstrapAdminUser(userDocs, n, written)
          /\ lastBoot' = Boot(bootstrapResult(userDocs, n, written))
          /\ selfReg' = selfReg \cup {n}
          /\ toast' = "Account created successfully! You can now manage the menu."
  /\ UNCHANGED <<valVars, variant, menuVars, claims, adminUsers, lastCall>>

\* handleSignUp of the admin_users page: the account is created and signed
\* in, and its admin_users record is written with the role admin
handleSignUpAdminUsers(n, accepted, written) ==
  /\ variant = VariantRoster
  /\ user = NoUser
  /\ NewUid(n)
  /\ IF ~accepted
     THEN /\ toast' = "Failed to create account"
          /\ UNCHANGED <<user, authUsers, adminUsers, selfReg>>
     ELSE /\ authUsers' = authUsers \cup {n}
          /\ user' = n
          /\ selfReg' = selfReg \cup {n}
          /\ adminUsers' = IF written THEN [adminUsers EXCEPT ![n] = "admin"]
                           ELSE adminUsers
          /\ toast' = IF written
                      THEN "Account created successfully! You are now an admin."
                      ELSE "Failed to create account"
  /\ lastBoot' = NoBoot
  /\ UNCHANGED <<valVars, variant, menuVars, claims, userDocs, lastCall>>

-----------------------------------------------------------------------------
(* The accounts specification                                              *)

InitAccounts ==
  /\ InitValidationVars
  /\ variant \in {VariantFirestore, VariantRoster}
  /\ InitMenuVars
  /\ InitAccountVars
  /\ authUsers = {"a1", "u2"}
  /\ user = NoUser

NextAccounts ==
  \/ \E u \in Uids, accepted \in BOOLEAN, written \in BOOLEAN :
       handleSignIn(u, accepted, written)
  \/ handleSignOut
  \/ \E n \in Uids, accepted \in BOOLEAN, written \in BOOLEAN :
       handleSignUp(n, accepted, written)
  \/ \E n \in Uids, accepted \in BOOLEAN, written \in BOOLEAN :
       handleSignUpAdminUsers(n, accepted, written)
  \/ \E n \in Uids, role \in RoleInputs, accepted \in BOOLEAN, written \in BOOLEAN :
       CreateUserModal(n, role, accepted, written)
  \/ \E caller \in Uids \cup {NoUser}, n \in Uids, role \in RoleInputs, fail \in FailSteps :
       createUserCallable(caller, n, role, fail)
  \/ \E caller \in Uids \cup {NoUser}, uid \in Uids \cup {NoUser}, fail \in FailStepsOfTwo :
       deleteUserCallable(caller, uid, fail)
  \/ \E caller \in Uids \cup {NoUser}, uid \in Uids \cup {NoUser}, role \in RoleInputs,
        fail \in FailStepsOfTwo :
       updateUserRoleCallable(caller, uid, role, fail)
  \/ \E caller \in Uids \cup {NoUser}, fail \in BOOLEAN : getUsersCallable(caller, fail)

SpecAccounts == InitAccounts /\ [][NextAccounts]_vars

\* the sessions of the Firestore page with every run of bootstrapAdminUser,
\* among the role changes and deletions that decide what it finds
NextBootstrap ==
  \/ \E u \in Uids, accepted \in BOOLEAN, written \in BOOLEAN :
       handleSignIn(u, accepted, written)
  \/ handleSignOut
  \/ \E n \in Uids, accepted \in BOOLEAN, written \in BOOLEAN :
       handleSignUp(n, accepted, written)
  \/ \E written \in BOOLEAN : bootstrapAdminUserRun(written)
  \/ \E caller \in Uids \cup {NoUser}, uid \in Uids \cup {NoUser}, fail \in FailStepsOfTwo :
       deleteUserCallable(caller, uid, fail)
  \/ \E caller \in Uids \cup {NoUser}, uid \in Uids \cup {NoUser}, role \in RoleInputs,
        fail \in FailStepsOfTwo :
       updateUserRoleCallable(caller, uid, role, fail)

SpecBootstrap == InitAccounts /\ [][NextBootstrap]_vars

-----------------------------------------------------------------------------
(* The user list of the admin page: fetchAllUsers, fetchAllUsersOnce and   *)
(* fetchUsers                                                              *)

\* how a read of the users collection ends: with the snapshot, or with a
\* FirebaseError of one of these codes, or with a thrown value that is no Error
ReadOutcomes == {"ok", "permission-denied", "unavailable", "internal", "thrown-value"}

\* the users records as a snapshot maps them
UserRecords == [u \in { v \in Uids : userDocs[v] # NoRole } |-> userDocs[u]]

\* a mapping that reports a failed read as an empty collection
FailureAsEmpty(outcome, records) ==
  IF outcome = "ok" /\ records # <<>> THEN Fetched(records, NoError, FALSE)
  ELSE Fetched(<<>>, NoError, TRUE)

\* fetchAllUsers: what its callback is called with
fetchAllUsers(outcome, records) ==
  IF outcome = "ok"
  THEN IF records = <<>> THEN Fetched(<<>>, NoError, TRUE)
       ELSE Fetched(records, NoError, FALSE)
  ELSE IF outcome = "permission-denied"
  THEN Fetched(<<>>, "Permission Denied: You don't have admin privileges to view users. Check your role in Firestore.", FALSE)
  ELSE IF outcome = "unavailable"
  THEN Fetched(<<>>, "Service Unavailable: Firestore is temporarily unavailable.", FALSE)
  ELSE IF outcome = "thrown-value"
  THEN Fetched(<<>>, "Unknown error fetching users", FALSE)
  ELSE Fetched(<<>>, "Firebase: Error (internal).", FALSE)

\* fetchAllUsersOnce: what it resolves to
fetchAllUsersOnce(outcome, records) ==
  IF outcome = "ok"
  THEN IF records = <<>> THEN Fetched(<<>>, NoError, TRUE)
       ELSE Fetched(records, NoError, FALSE)
  ELSE IF outcome = "permission-denied"
  THEN Fetched(<<>>, "Permission Denied: You don't have admin privileges to view users.", FALSE)
  ELSE IF outcome = "thrown-value"
  THEN Fetched(<<>>, "Unknown error fetching users", FALSE)
  ELSE IF outcome = "unavailable"
  THEN Fetched(<<>>, "Firebase: Error (unavailable).", FALSE)
  ELSE Fetched(<<>>, "Firebase: Error (internal).", FALSE)

\* directError.message.includes("Permission Denied") || includes("admin privileges")
IsPermissionMessage(m) ==
  m \in { "Permission Denied: You don't have admin privileges to view users.",
          "Permission Denied: You don't have admin privileges to view users. Check your role in Firestore." }

\* a listener of fetchAllUsers is called back
fetchAllUsersCallback(outcome) ==
  /\ variant = VariantFirestore
  /\ lastFetch' = [fn |-> "fetchAllUsers", outcome |-> outcome, records |-> UserRecords,
                   result |-> fetchAllUsers(outcome, UserRecords)]
  /\ UNCHANGED <<valVars, variant, user, toast, menuVars0, viewVars, tableVars, net,
                 signInLog, refreshVars, users, usersError, isUsersEmpty, acctVars>>

\* fetchUsers up to its first await: the page of a signed-in administrator
\* calls it from its role effect, after a change of the accounts and from
\* "Try Again"
fetchUsersStart ==
  /\ variant = VariantFirestore
  /\ isAdmin
  /\ Cardinality(net) < MaxPending
  /\ net' = net \cup {Response("fetchUsers", <<>>, user)}
  /\ usersError' = NoError
  /\ isUsersEmpty' = FALSE
  /\ lastFetch' = NoFetch
  /\ UNCHANGED <<valVars, variant, user, toast, menuVars0, viewVars, tableVars,
                 signInLog, refreshVars, users, acctVars>>

\* fetchUsers after its awaits: the callable getUsers answered (callable: it
\* was reached and did not fail; it refuses a caller who is no administrator),
\* and after its failure the direct read with fetchAllUsersOnce ended
fetchUsersSettled(callable, direct) ==
  /\ variant = VariantFirestore
  /\ \E m \in net :
       /\ m.to = "fetchUsers"
       /\ net' = net \ {m}
       /\ LET called == callable /\ verifyAdmin(m.data)
              r == fetchAllUsersOnce(direct, UserRecords)
          IN /\ lastFetch' = [fn |-> "fetchUsers", called |-> called, outcome |-> direct,
                              records |-> UserRecords, result |-> r]
             /\ IF called
                THEN /\ users' = getUsers
                     /\ isUsersEmpty' = (getUsers = <<>>)
                     /\ UNCHANGED <<usersError, toast>>
                ELSE IF r.error # NoError
                THEN /\ usersError' =
                          IF IsPermissionMessage(r.error)
                          THEN "You don't have admin privileges to view users. Please check your role in Firebase."
                          ELSE r.error
                     /\ toast' = IF IsPermissionMessage(r.error)
                                 THEN "Access denied: Admin privileges required"
                                 ELSE r.error
                     /\ UNCHANGED <<users, isUsersEmpty>>
                ELSE /\ users' = r.users
                     /\ isUsersEmpty' = r.isEmpty
                     /\ UNCHANGED <<usersError, toast>>
  /\ UNCHANGED <<valVars, variant, user, menuVars0, viewVars, tableVars, signInLog, refreshVars,
                 acctVars>>

NextUsers ==
  \/ \E u \in Uids, written \in BOOLEAN : handleSignIn(u, TRUE, written)
  \/ handleSignOut
  \/ \E outcome \in ReadOutcomes : fetchAllUsersCallback(outcome)
  \/ fetchUsersStart
  \/ \E callable \in BOOLEAN, direct \in ReadOutcomes : fetchUsersSettled(callable, direct)
  \/ \E caller \in {"a1", "u3"}, uid \in Uids : deleteUserCallable(caller, uid, 0)

\* the accounts of InitAccounts, and with them or not a super administrator
\* u3, whose role is a custom claim set outside the pages and who has no
\* users record
InitUsers ==
  /\ InitValidationVars
  /\ variant = VariantFirestore
  /\ InitMenuVars
  /\ toast = ""
  /\ \E super \in BOOLEAN :
       /\ claims = [u \in Uids |-> CASE u = "a1" -> "admin"
                                     [] u = "u2" -> "content_manager"
                                     [] OTHER -> IF super THEN "super_admin" ELSE NoRole]
       /\ authUsers = IF super THEN {"a1", "u2", "u3"} ELSE {"a1", "u2"}
  /\ userDocs = [u \in Uids |-> CASE u = "a1" -> "admin"
                                   [] u = "u2" -> "content_manager"
                                   [] OTHER -> NoRole]
  /\ adminUsers = [u \in Uids |-> IF u = "a1" THEN "super_admin" ELSE NoRole]
  /\ selfReg = {}
  /\ lastCall = NoCall
  /\ lastBoot = NoBoot
  /\ user = NoUser

SpecUsers == InitUsers /\ [][NextUsers]_vars

-----------------------------------------------------------------------------
(* The account functions alone: any sequence of createUser, deleteUser     *)
(* and updateUserRole calls, each running to its end or failing at a step  *)

InitCallables == InitAccounts /\ variant = VariantFirestore

NextCallables ==
  \/ \E caller \in Uids \cup {NoUser}, n \in Uids, role \in RoleInputs, fail \in FailSteps :
       createUserCallable(caller, n, role, fail)
  \/ \E caller \in Uids \cup {NoUser}, uid \in Uids \cup {NoUser}, fail \in FailStepsOfTwo :
       deleteUserCallable(caller, uid, fail)
  \/ \E caller \in Uids \cup {NoUser}, uid \in Uids \cup {NoUser}, role \in RoleInputs,
        fail \in FailStepsOfTwo :
       updateUserRoleCallable(caller, uid, role, fail)

SpecCallables == InitCallables /\ [][NextCallables]_vars

-----------------------------------------------------------------------------
(* bootstrapAdminUser in its steps: the read of the record and of the      *)
(* token's claims, then the write, with account functions in between       *)

\* a bootstrap between its read and its write: the account it runs for and
\* the role it is about to write
Bootstrapping(u, role) == [to |-> "bootstrap", who |-> u, role |-> role]

\* bootstrapAdminUser up to setDoc, for the session of a page that loads:
\* getDoc, and for a missing record getIdTokenResult
bootstrapRead ==
  /\ variant = VariantFirestore
  /\ user # NoUser
  /\ IF userDocs[user] # NoRole
     THEN /\ lastBoot' = Boot([success |-> TRUE, isBootstrap |-> FALSE])
          /\ UNCHANGED net
     ELSE /\ Cardinality(net) < MaxPending
          /\ net' = net \cup
               {Bootstrapping(user, IF claims[user] # NoRole THEN claims[user]
                                    ELSE "content_manager")}
          /\ lastBoot' = NoBoot
  /\ UNCHANGED <<valVars, variant, user, toast, menuVars0, viewVars, tableVars,
                 signInLog, refreshVars, usersVars, authUsers, claims, userDocs, adminUsers, selfReg,
                 lastCall>>

\* setDoc of a bootstrap that found no record: the whole record is set (up:
\* the write is carried out); reading auth.currentUser.email throws once the
\* session is gone
bootstrapWrite(up) ==
  /\ variant = VariantFirestore
  /\ \E m \in net :
       /\ m.to = "bootstrap"
       /\ net' = net \ {m}
       /\ LET written == up /\ user # NoUser
          IN /\ userDocs' = IF written THEN [userDocs EXCEPT ![m.who] = m.role]
                            ELSE userDocs
             /\ lastBoot' = Boot([success |-> written, isBootstrap |-> written])
             /\ toast' = IF written THEN "Welcome! Your admin profile has been created."
                         ELSE toast
  /\ UNCHANGED <<valVars, variant, user, menuVars0, viewVars, tableVars, signInLog, refreshVars,
                 usersVars, authUsers, claims, adminUsers, selfReg, lastCall>>

InitBootRace == InitAccounts /\ variant = VariantFirestore

NextBootRace ==
  \/ \E u \in Uids, written \in BOOLEAN : handleSignIn(u, TRUE, written)
  \/ handleSignOut
  \/ bootstrapRead
  \/ \E up \in BOOLEAN : bootstrapWrite(up)
  \/ \E n \in Uids, role \in {"admin", "content_manager"}, fail \in FailSteps :
       createUserCallable("a1", n, role, fail)
  \/ \E uid \in Uids, role \in {"admin", "content_manager"} :
       updateUserRoleCallable("a1", uid, role, 0)

SpecBootRace == InitBootRace /\ [][NextBootRace]_vars

-----------------------------------------------------------------------------
(* useAutoRefresh: the check on mount and the check of every minute        *)

getHours(c) == (c \div 60) % 24
getMinutes(c) == c % 60

\* the condition of checkAndRefresh
RefreshDue(c) == getHours(c) = targetHour /\ getMinutes(c) < RefreshWindow

\* queryClient.invalidateQueries() and window.location.reload(): the app is
\* gone until it mounts again; the session outlives the reload, and what
\* the pages hold is rebuilt by their own effects and is not followed here
Reload ==
  /\ reloads < MaxReloads
  /\ reloads' = reloads + 1
  /\ mounted' = FALSE
  /\ UNCHANGED <<clock, lastCheck>>

\* a minute passes (a timer may fire late)
Tick ==
  /\ clock < FirstMinute + MaxMinutes
  /\ clock' = clock + 1
  /\ UNCHANGED <<mounted, lastCheck, reloads>>
  /\ UNCHANGED <<valVars, variant, user, toast, menuVars0, acctVars, viewVars, tableVars,
                 net, signInLog, usersVars>>

\* the app mounts after a reload: the effect of useAutoRefresh starts the
\* interval and runs checkAndRefresh
appMount ==
  /\ ~mounted
  /\ IF RefreshDue(clock)
     THEN Reload
     ELSE /\ mounted' = TRUE
          /\ lastCheck' = clock
          /\ UNCHANGED <<clock, reloads>>
  /\ UNCHANGED <<valVars, variant, user, toast, menuVars0, acctVars, viewVars, tableVars,
                 net, signInLog, usersVars>>

\* checkAndRefresh run by the interval, a minute or more after the last run
checkAndRefresh ==
  /\ mounted
  /\ clock > lastCheck
  /\ IF RefreshDue(clock)
     THEN Reload
     ELSE /\ lastCheck' = clock
          /\ UNCHANGED <<clock, mounted, reloads>>
  /\ UNCHANGED <<valVars, variant, user, toast, menuVars0, acctVars, viewVars, tableVars,
                 net, signInLog, usersVars>>

InitRefresh == InitAccounts /\ variant = VariantFirestore

NextRefresh ==
  \/ Tick
  \/ appMount
  \/ checkAndRefresh
  \/ \E u \in {"a1", "u2"} : handleSignIn(u, TRUE, TRUE)
  \/ handleSignOut

SpecRefresh == InitRefresh /\ [][NextRefresh]_vars

-----------------------------------------------------------------------------
(* Signing in with a filled form: validation, the identity provider's      *)
(* answer and the message shown                                            *)

AccountEmail(u) ==
  CASE u = "a1" -> <<"a", "@", "b", ".", "c", "o">>
    [] u = "u2" -> <<"u", "@", "b", ".", "c", "o">>
    [] OTHER -> <<"v", "@", "b", ".", "c", "o">>

AccountPassword(u) == <<"P", "a", "s", "s", "w", "o", "r", "d", "1">>

\* signInWithEmailAndPassword as the provider answers it: the uid, or the
\* error code.  With email enumeration protection the provider names
\* neither credential, without it it tells an unknown email from a wrong
\* password; up: the provider was reached
signInWithEmailAndPassword(email, password, protection, up) ==
  LET known == { u \in authUsers : AccountEmail(u) = email }
      right == { u \in known : AccountPassword(u) = password }
  IN IF ~up THEN [uid |-> NoUser, code |-> "auth/network-request-failed"]
     ELSE IF right # {} THEN [uid |-> CHOOSE u \in right : TRUE, code |-> ""]
     ELSE IF protection THEN [uid |-> NoUser, code |-> "auth/invalid-credential"]
     ELSE IF known = {} THEN [uid |-> NoUser, code |-> "auth/user-not-found"]
     ELSE [uid |-> NoUser, code |-> "auth/wrong-password"]

SignInEmails ==
  { AccountEmail("a1"), AccountEmail("u2"), <<"x", "@", "b", ".", "c", "o">>, <<"a", "b">> }

SignInPasswords ==
  { AccountPassword("a1"), <<"P", "a", "s", "s", "w", "o", "r", "d", "2">>, <<>> }

\* handleSignIn with the form as filled: signInSchema.parse, then the
\* provider; a ZodError shows its first issue, any other error its message
handleSignInForm(email, password, protection, up, written) ==
  /\ variant \in {VariantFirestore, VariantRoster}
  /\ user = NoUser
  /\ LET parsed == signInSchema(Credentials("signIn", email, password, <<>>))
         answer == signInWithEmailAndPassword(parsed.data.email, parsed.data.password,
                                              protection, up)
     IN IF ~parsed.success
        THEN /\ toast' = FirstIssue(parsed.errors)
             /\ UNCHANGED <<valVars, variant, user, menuVars, acctVars>>
        ELSE IF answer.uid # NoUser
        THEN handleSignIn(answer.uid, TRUE, written)
        ELSE /\ Cardinality(signInLog) < MaxAttempts
             /\ toast' = AuthErrorMessage(answer.code)
             /\ signInLog' = signInLog \cup
                    {[email |-> parsed.data.email, password |-> parsed.data.password,
                      protection |-> protection, up |-> up, message |-> toast']}
             /\ lastBoot' = NoBoot
             /\ UNCHANGED <<valVars, variant, user, menuVars0, viewVars, tableVars, net,
                            usersVars, refreshVars, authUsers, claims, userDocs, adminUsers, selfReg, lastCall>>

NextSignIn ==
  \/ \E email \in SignInEmails, password \in SignInPasswords, protection \in BOOLEAN,
        up \in BOOLEAN, written \in BOOLEAN :
       handleSignInForm(email, password, protection, up, written)
  \/ handleSignOut

SpecSignIn == InitAccounts /\ [][NextSignIn]_vars

-----------------------------------------------------------------------------
(* The admin-users panel of the admin_users page                           *)

\* the rows of the panel that carry the remove button:
\* admin.email !== user?.email
RemoveButtonShown(id) == AccountEmail(id) # AccountEmail(user)

\* the remove button of the row id, confirmed: deleteDoc of the record (up:
\* the backend carries the deletion out)
handleRemoveAdmin(id, up) ==
  /\ variant = VariantRoster
  /\ user # NoUser
  /\ adminUsers[id] # NoRole
  /\ RemoveButtonShown(id)
  /\ IF up
     THEN /\ adminUsers' = [adminUsers EXCEPT ![id] = NoRole]
          /\ toast' = "Admin removed successfully!"
     ELSE /\ toast' = "Failed to remove admin"
          /\ UNCHANGED adminUsers
  /\ lastBoot' = NoBoot
  /\ UNCHANGED <<valVars, variant, user, menuVars, authUsers, claims, userDocs, selfReg,
                 lastCall>>

\* handleAddAdmin for the email of n, which has no record yet: a record
\* with that email and the chosen role is written (under an identifier of
\* its own; the model keeps one record for an email)
handleAddAdmin(n, role, up) ==
  /\ variant = VariantRoster
  /\ user # NoUser
  /\ adminUsers[n] = NoRole
  /\ role \in {"super_admin", "admin"}
  /\ IF up
     THEN /\ adminUsers' = [adminUsers EXCEPT ![n] = role]
          /\ toast' = "Admin invitation sent"
     ELSE /\ toast' = "Failed to add admin"
          /\ UNCHANGED adminUsers
  /\ lastBoot' = NoBoot
  /\ UNCHANGED <<valVars, variant, user, menuVars, authUsers, claims, userDocs, selfReg,
                 lastCall>>

InitRoster == InitAccounts /\ variant = VariantRoster

NextRoster ==
  \/ \E u \in Uids, accepted \in BOOLEAN : handleSignIn(u, accepted, TRUE)
  \/ handleSignOut
  \/ \E n \in Uids, accepted \in BOOLEAN, written \in BOOLEAN :
       handleSignUpAdminUsers(n, accepted, written)
  \/ \E id \in Uids, up \in BOOLEAN : handleRemoveAdmin(id, up)
  \/ \E n \in Uids, role \in {"super_admin", "admin"}, up \in BOOLEAN :
       handleAddAdmin(n, role, up)

SpecRoster == InitRoster /\ [][NextRoster]_vars

-----------------------------------------------------------------------------
(* Properties of the validation layer                                      *)

\* C3: menuItemSchema (every page's, and the test suite's) accepts an input
\* exactly when its trimmed name has
\* between 1 and 100 characters, its price is a number with
\* 0 < price <= 10000, its category is one of the four categories and its
\* level one of the three levels.
C3_SchemaAcceptsExactly ==
  vOut # NoResult =>
    (vOut.success <=>
       /\ Len(Trim(vIn.name)) >= 1
       /\ Len(Trim(vIn.name)) <= 100
       /\ ~vIn.price.nan
       /\ vIn.price.num > 0
       /\ vIn.price.num <= 10000 * vIn.price.den
       /\ vIn.category \in {CatMainCourse, CatDessert, CatBeverage, CatSnacks}
       /\ vIn.canteen_level \in {Level1, Level2, Level3})

\* the text holds "<script>", "javascript:" in any letter case, or an
\* event-handler substring on<word>=
C13_HasMarkup(s) ==
  \/ \E i \in 1..Len(s) :
       /\ i + 7 <= Len(s)
       /\ SubSeq(s, i, i + 7) = <<"<", "s", "c", "r", "i", "p", "t", ">">>
  \/ \E i \in 1..Len(s) :
       /\ i + 10 <= Len(s)
       /\ ToLowerCase(SubSeq(s, i, i + 10)) =
            <<"j", "a", "v", "a", "s", "c", "r", "i", "p", "t", ":">>
  \/ \E i \in 1..Len(s), e \in 1..Len(s) :
       /\ e >= i + 3
       /\ ToLowerChar(s[i]) = "o"
       /\ ToLowerChar(s[i + 1]) = "n"
       /\ \A k \in (i + 2)..(e - 1) : IsWordChar(s[k])
       /\ s[e] = "="

\* C13: for every text holding "<script>", "javascript:" (any letter case)
\* or an on<word>= substring, the output of sanitizeInput holds none of them
\* and no angle bracket.
C13_SanitizedHasNoMarkup ==
  (Len(sOut) >= 1 /\ C13_HasMarkup(sIn)) =>
    (/\ ~C13_HasMarkup(sOut[1])
     /\ \A k \in 1..Len(sOut[1]) : sOut[1][k] \notin {"<", ">"})

\* C14: sanitizeInput is idempotent: applied to its own output it returns
\* that output.
C14_SanitizeIdempotent ==
  Len(sOut) >= 2 => sOut[2] = sOut[1]

\* C15: every name a successful menuItemSchema validation returns is a
\* sanitized text of 1 to 100 characters, never the empty text.
C15_ValidatedNameNonEmpty ==
  (vOut # NoResult /\ vOut.success) =>
    (/\ Len(vOut.data.name) >= 1
     /\ Len(vOut.data.name) <= 100
     /\ \A k \in 1..Len(vOut.data.name) : vOut.data.name[k] \notin {"<", ">"})

\* a signUpSchema run has finished
C16_SignUpDone == cIn.schema = "signUp" /\ cOut # NoVerdict

\* C16: signUpSchema accepts a form exactly when the (trimmed) e-mail is
\* well-formed, the password has 8 to 100 characters with an upper-case
\* letter, a lower-case letter and a digit, and confirmPassword equals the
\* password; a mismatch is rejected whatever the password, "password1" is
\* rejected and "Password1", confirmed, is accepted.
C16_SignUpAcceptsExactly ==
  C16_SignUpDone =>
    LET pw == cIn.password
    IN /\ cOut.success <=>
            /\ IsEmail(Trim(cIn.email))
            /\ Len(pw) >= 8
            /\ Len(pw) <= 100
            /\ \E k \in 1..Len(pw) : pw[k] \in Range(UpperCase)
            /\ \E k \in 1..Len(pw) : pw[k] \in Range(LowerCase)
            /\ \E k \in 1..Len(pw) : pw[k] \in Range(Digits)
            /\ cIn.confirmPassword = pw
       /\ cIn.confirmPassword # pw => ~cOut.success
       /\ pw = <<"p", "a", "s", "s", "w", "o", "r", "d", "1">> => ~cOut.success
       /\ (/\ pw = <<"P", "a", "s", "s", "w", "o", "r", "d", "1">>
           /\ cIn.confirmPassword = pw
           /\ cIn.email = <<"a", "@", "b", ".", "c", "o">>) => cOut.success

\* "Password1" was accepted with its confirmation
C16_Witness ==
  /\ C16_SignUpDone
  /\ cOut.success
  /\ cIn.password = <<"P", "a", "s", "s", "w", "o", "r", "d", "1">>
  /\ cIn.confirmPassword = cIn.password

\* a signInSchema run has finished
C17_SignInDone == cIn.schema = "signIn" /\ cOut # NoVerdict

\* C17: a successful signInSchema validation returns the trimmed,
\* lower-cased e-mail of the form; an e-mail that is not well-formed, one
\* holding "<" or ">" included, is rejected and not sanitized into an
\* address; an empty password is rejected.
C17_SignInNormalisesEmail ==
  C17_SignInDone =>
    /\ cOut.success => cOut.data.email = ToLowerCase(Trim(cIn.email))
    /\ ~IsEmail(Trim(cIn.email)) => ~cOut.success
    /\ (\E k \in 1..Len(cIn.email) : cIn.email[k] \in {"<", ">"}) => ~cOut.success
    /\ cIn.password = <<>> => ~cOut.success

\* an e-mail with capitals and blanks around it was accepted and returned
\* trimmed and in lower case
C17_Witness ==
  /\ C17_SignInDone
  /\ cOut.success
  /\ cIn.email # cOut.data.email
  /\ cOut.data.email = <<"a", "@", "b", ".", "c", "o">>

-----------------------------------------------------------------------------
(* Properties of the menu handlers                                         *)

\* a menu handler has just run (lastOp is rewritten by every invocation)
MenuStep(ops) == lastOp'.seq # lastOp.seq /\ lastOp'.op \in ops

ListedItems(store) == Range(list(store))

\* C1: every item of the catalog store has a price > 0, a category among the
\* four categories and a level among the three levels, whichever create or
\* update (handleSave, saveMutation, POST, PUT) stored it.
C1_StoredItemsValid ==
  \A i \in DOMAIN menu_items :
    /\ ~menu_items[i].price.nan
    /\ menu_items[i].price.num > 0
    /\ menu_items[i].category \in {CatMainCourse, CatDessert, CatBeverage, CatSnacks}
    /\ menu_items[i].canteen_level \in {Level1, Level2, Level3}

\* C2: when the form fails menuItemSchema, the save (handleSave,
\* saveMutation) sends no write, leaves the catalog store as it was, and
\* shows the message of the first validation issue.
C2_InvalidSaveWritesNothing ==
  [][(/\ MenuStep({"create", "update"})
      /\ variant \in {VariantFirestore, VariantSupabase}
      /\ ~SchemaOf(variant, ParsedForm(lastOp'.form)).success)
     => (/\ ~lastOp'.sent
         /\ menu_items' = menu_items
         /\ toast' = SchemaOf(variant, ParsedForm(lastOp'.form)).errors[1])]_vars

\* a form with an empty name and the price -5 was submitted against a
\* non-empty catalog: nothing was sent and the name's message is shown
C2_Witness ==
  /\ lastOp.op \in {"create", "update"}
  /\ lastOp.form.name = <<>>
  /\ lastOp.form.price = <<"-", "5">>
  /\ ~lastOp.sent
  /\ toast = "Name is required"
  /\ menu_items # <<>>

\* C4: a create, update or delete by a session that is anonymous, or whose
\* role is neither admin nor content_manager, is rejected before any write
\* is sent, and the catalog store is unchanged.
C4_UnauthorizedRejected ==
  [][(/\ MenuStep({"create", "update", "delete"})
      /\ ~(/\ lastOp'.who # NoUser
           /\ getUserRole(lastOp'.who) \in {"admin", "content_manager"}))
     => (~lastOp'.sent /\ menu_items' = menu_items)]_vars

\* the name a save stores for a submitted name: handleSave trims and
\* sanitizes it, saveMutation trims it, POST and PUT store it as sent
C8_StoredName(v, n) ==
  CASE v = VariantFirestore -> sanitizeInput(Trim(n))
    [] v = VariantSupabase -> Trim(n)
    [] OTHER -> n

\* after the create of lastOp', the listing holds exactly one more item, under
\* an identifier never handed out before, with the name n and the submitted
\* price, category and level; the items listed before are listed unchanged
C8_CreatedWithName(n) ==
  \E id \in DOMAIN menu_items' :
    /\ id \notin 1..(nextId - 1)
    /\ ListedItems(menu_items') \ ListedItems(menu_items) = {Listed(menu_items', id)}
    /\ ListedItems(menu_items) \subseteq ListedItems(menu_items')
    /\ menu_items'[id].name = n
    /\ menu_items'[id].price = parseFloat(lastOp'.form.price)
    /\ menu_items'[id].category = lastOp'.form.category
    /\ menu_items'[id].canteen_level = lastOp'.form.canteen_level

\* the submitted item is a valid one: the name has 1 to 100 characters once
\* trimmed, 0 < price <= 10000, category and level are of the enumerations
C8_ValidItem ==
  LET f == lastOp'.form
      p == parseFloat(f.price)
  IN /\ Len(Trim(f.name)) \in 1..100
     /\ ~p.nan /\ p.num > 0 /\ p.num <= 10000 * p.den
     /\ f.category \in {CatMainCourse, CatDessert, CatBeverage, CatSnacks}
     /\ f.canteen_level \in {Level1, Level2, Level3}

C9_UpdateKeepsCreatedAt ==
  [][(MenuStep({"update"}) /\ lastOp'.ok /\ lastOp'.target \in DOMAIN menu_items)
     => LET id == lastOp'.target
        IN /\ DOMAIN menu_items' = DOMAIN menu_items
           /\ menu_items'[id].name = C8_StoredName(variant, lastOp'.form.name)
           /\ menu_items'[id].price = parseFloat(lastOp'.form.price)
           /\ menu_items'[id].category = lastOp'.form.category
           /\ menu_items'[id].canteen_level = lastOp'.form.canteen_level
           /\ menu_items'[id].created_at = menu_items[id].created_at
           /\ \A j \in DOMAIN menu_items \ {id} : menu_items'[j] = menu_items[j]]_vars

\* C10: after a successful delete of an existing item the listing has no item
\* with that identifier, and every other item is still listed, unchanged.
C10_DeleteRemovesOnlyThat ==
  [][(MenuStep({"delete"}) /\ lastOp'.ok /\ lastOp'.target \in DOMAIN menu_items)
     => /\ \A e \in ListedItems(menu_items') : e.id # lastOp'.target
        /\ ListedItems(menu_items') =
             { e \in ListedItems(menu_items) : e.id # lastOp'.target }]_vars

\* the first of two items was deleted and the second is still in the store
C10_Witness ==
  /\ lastOp.op = "delete"
  /\ lastOp.ok
  /\ lastOp.target = 1
  /\ DOMAIN menu_items = {2}

\* C11: an update or a delete of an identifier that is not in the store (a
\* second delete, the save of an edit whose item was deleted meanwhile) is
\* reported as an error, never as a success, and leaves the store unchanged.
C11_MissingIdIsError ==
  [][(/\ MenuStep({"update", "delete"})
      /\ lastOp'.sent
      /\ lastOp'.target \notin DOMAIN menu_items)
     => (~lastOp'.ok /\ menu_items' = menu_items)]_vars

\* a <= b in the order of (canteen_level, category, name)
C12_KeyLeq(a, b) ==
  \/ StrLess(a.canteen_level, b.canteen_level)
  \/ /\ a.canteen_level = b.canteen_level
     /\ \/ StrLess(a.category, b.category)
        \/ /\ a.category = b.category
           /\ (a.name = b.name \/ StrLess(a.name, b.name))

\* the listing l holds the stored items ids, each once, in ascending order
C12_ListsExactly(l, ids) ==
  /\ Range(l) = { Listed(menu_items, i) : i \in ids }
  /\ Len(l) = Cardinality(ids)
  /\ \A k \in 1..(Len(l) - 1) : C12_KeyLeq(l[k].item, l[k + 1].item)

C12_OfLevel(level) == { i \in DOMAIN menu_items : menu_items[i].canteen_level = level }

\* C12: the listing without a level holds exactly the items of the store,
\* and the listing of a level exactly the stored items of that level, each
\* once, in ascending order of (canteen_level, category, name).
C12_ListReturnsStoreSorted ==
  /\ C12_ListsExactly(list(menu_items), DOMAIN menu_items)
  /\ C12_ListsExactly(GET(<<>>), DOMAIN menu_items)
  /\ \A level \in LevelValues \ {<<>>} :
       /\ C12_ListsExactly(GET(level), C12_OfLevel(level))
       /\ C12_ListsExactly(IndexQuery(level), C12_OfLevel(level))

\* two items are stored, the later one sorts first, and the listing of
\* Level 1 holds one of the two
C12_Witness ==
  /\ Cardinality(DOMAIN menu_items) = 2
  /\ list(menu_items)[1].id > list(menu_items)[2].id
  /\ Len(GET(Level1)) = 1
  /\ Len(IndexQuery(Level2)) = 1

-----------------------------------------------------------------------------
(* Properties of the account operations                                    *)

\* a callable request has just been handled
CallStep == lastCall'.n # lastCall.n

AccountsUnchanged == authUsers' = authUsers /\ claims' = claims /\ userDocs' = userDocs

\* C5: a callable request (createUser, deleteUser, updateUserRole, getUsers)
\* whose caller is unauthenticated, or is no account with the custom claim
\* admin or super_admin, is refused and changes neither the accounts, nor the
\* custom claims, nor the users records; so is in particular every request of
\* a caller whose claim is content_manager.
C5_CallablesRefuseNonAdmins ==
  [][(/\ CallStep
      /\ \/ lastCall'.caller = NoUser
         \/ lastCall'.caller \notin authUsers
         \/ claims[lastCall'.caller] \notin {"admin", "super_admin"}
         \/ claims[lastCall'.caller] = "content_manager")
     => (~lastCall'.ok /\ AccountsUnchanged)]_vars

\* the content manager u2 has asked for a change of the accounts, as the
\* second request of the run, and was refused
C5_Witness ==
  /\ lastCall.n = 2
  /\ lastCall.caller = "u2"
  /\ lastCall.fn \in {"createUser", "deleteUser", "updateUserRole"}
  /\ ~lastCall.ok
  /\ claims["u2"] = "content_manager"

\* C6: a deleteUser or updateUserRole request of a caller whose role is admin,
\* aimed at another account whose role (users record or custom claim) is
\* admin, fails and changes nothing.
C6_AdminsProtectedFromAdmins ==
  [][(/\ CallStep
      /\ lastCall'.fn \in {"deleteUser", "updateUserRole"}
      /\ lastCall'.caller \in authUsers
      /\ "admin" \in {claims[lastCall'.caller], userDocs[lastCall'.caller]}
      /\ lastCall'.target \in authUsers
      /\ lastCall'.target # lastCall'.caller
      /\ "admin" \in {claims[lastCall'.target], userDocs[lastCall'.target]})
     => (~lastCall'.ok /\ AccountsUnchanged)]_vars

\* C7 as stated: no account that only registered itself has the role admin.
C7_SelfRegisteredNeverAdmin ==
  \A u \in selfReg :
    /\ claims[u] # "admin"
    /\ userDocs[u] # "admin"
    /\ adminUsers[u] # "admin"

\* C7: an account that only registered itself has at most the lowest role of
\* its page: on the Firestore page (admin, content_manager) no custom claim
\* and the record content_manager, or no record before the bootstrap has
\* written it; on the admin_users page (super_admin, admin) the record admin
\* or none, never super_admin.
C7_SelfRegisteredLowestRole ==
  \A u \in selfReg :
    IF variant = VariantRoster
    THEN adminUsers[u] \in {NoRole, "admin"}
    ELSE /\ claims[u] = NoRole
         /\ userDocs[u] \in {NoRole, "content_manager"}
         /\ adminUsers[u] = NoRole

\* u3 has registered on the Firestore page, is signed in, and the bootstrap
\* has written its record
C7_Witness ==
  /\ variant = VariantFirestore
  /\ "u3" \in selfReg
  /\ user = "u3"
  /\ userDocs["u3"] = "content_manager"

\* bootstrapAdminUser has just run, for the session user' (the handlers
\* that sign in run it for the new session)
BootStep == lastBoot'.ran

\* the users records after the record of u was created by the bootstrap
C18_Bootstrapped(u) ==
  [userDocs EXCEPT ![u] = IF claims[u] # NoRole THEN claims[u] ELSE "content_manager"]

C19_StoreFirst(u) == IF userDocs[u] # NoRole THEN userDocs[u] ELSE claims[u]

\* C19: every role lookup (getUserRole, useAdminStatus, useUserRole, the
\* getUsers listing) gives an account the role of its store record whenever
\* it has one, and the token claim's only without a record (an account with
\* neither is left to the lookup's default).
C19_LookupsPreferStore ==
  /\ \A u \in authUsers :
       /\ getUserRole(u) = C19_StoreFirst(u)
       /\ useUserRole(u) = C19_StoreFirst(u)
       /\ C19_StoreFirst(u) # NoRole => getUsers[u] = C19_StoreFirst(u)
  /\ user # NoUser => (isAdmin <=> C19_StoreFirst(user) = "admin")

\* C20: in the admin panel at most one save write is in flight at any time:
\* while a save is pending no further save can be started.
C20_OneSaveInFlight == Len(inFlight) <= 1

-----------------------------------------------------------------------------
(* Properties of the pages' listings                                       *)

\* C21: the public page has at most one subscription open, and what was
\* delivered to it since the level was selected was delivered for that level:
\* a delivery for a level selected before never becomes the menu shown.
C21_ShowsSelectedLevelOnly ==
  /\ Cardinality(viewSubs) <= 1
  /\ viewLevel \in {NoLevel, selectedLevel}

\* the public page shows the selected level's items as the store holds them
\* (or its error page), the open admin table the whole catalog
C22_ViewerCurrent ==
  \/ viewStatus = "error"
  \/ viewStatus = "ready" /\ indexItems = IndexQuery(selectedLevel)

C22_TableCurrent ==
  \/ variant \notin {VariantFirestore, VariantRoster}
  \/ user = NoUser
  \/ adminSubClosed
  \/ items = list(menu_items)

\* C22: after a successful create, update or delete the admin table and the
\* open public page come to show the store's contents again: the runs make
\* finitely many mutations, so each view is current again and again.
C22_ViewsCatchUp == ([]<>C22_ViewerCurrent) /\ ([]<>C22_TableCurrent)

-----------------------------------------------------------------------------
(* Properties of signing in                                                *)

\* C23: a failed sign-in shows the same message whether the email or the
\* password was wrong: two rejected attempts on the same deployment, one with
\* an unknown email and an account's password, one with the account's email
\* and another password, were shown identical messages.
C23_SameMessageForEitherField ==
  \A a \in signInLog, b \in signInLog, u \in authUsers :
    ( /\ a.protection = b.protection /\ a.up /\ b.up
      /\ a.email # AccountEmail(u) /\ a.password = AccountPassword(u)
      /\ b.email = AccountEmail(u) /\ b.password # AccountPassword(u) )
    => a.message = b.message

-----------------------------------------------------------------------------
(* Properties of the user list                                             *)

\* the rows of the user table: the error, the empty state or the list
C24_UsersPanel ==
  IF usersError # NoError THEN "error"
  ELSE IF isUsersEmpty \/ users = <<>> THEN "empty"
  ELSE "list"

\* C24: the user listing never reports a failed read as an empty collection:
\* fetchAllUsers and fetchAllUsersOnce return isEmpty = true only with no
\* error after a successful read of zero records, and after a failed read an
\* error with isEmpty = false; fetchUsers, whose callable and direct read both
\* failed, sets usersError and the table shows the error, not the empty state.
C24_FailureIsNotEmpty ==
  lastFetch # NoFetch =>
    /\ (lastFetch.fn = "fetchAllUsers" \/ ~lastFetch.called) =>
         /\ lastFetch.result.isEmpty =>
              /\ lastFetch.result.error = NoError
              /\ lastFetch.outcome = "ok"
              /\ lastFetch.records = <<>>
         /\ lastFetch.outcome # "ok" =>
              /\ lastFetch.result.error # NoError
              /\ ~lastFetch.result.isEmpty
    /\ (lastFetch.fn = "fetchUsers" /\ ~lastFetch.called /\ lastFetch.outcome # "ok") =>
         /\ usersError # NoError
         /\ C24_UsersPanel = "error"

\* fetchUsers has ended in a refused direct read and shows the error
C24_Witness ==
  /\ lastFetch # NoFetch
  /\ lastFetch.fn = "fetchUsers"
  /\ ~lastFetch.called
  /\ lastFetch.outcome = "permission-denied"
  /\ usersError # NoError

-----------------------------------------------------------------------------
(* Properties of failures                                                  *)

\* C25: every failure of a list subscription ends in a visible error: the
\* step in which the public page's listener fails leaves the page in its
\* error state, and the step in which the admin page's listener fails shows
\* a message; no failed listener leaves its page as it was, as if the list
\* had been read.
C25_FailuresAreShown ==
  [][ /\ (\E l \in viewSubs : l \notin viewSubs' /\ viewSubs' = viewSubs \ {l})
           => viewStatus' = "error"
      /\ (~adminSubClosed /\ adminSubClosed') => toast' # toast ]_vars

-----------------------------------------------------------------------------
(* Properties of the admin-users panel                                     *)

\* C26: no removal in the admin-users panel takes away the record of the
\* signed-in user or a record with the role super_admin: in every step the
\* signed-in user's record and every super_admin record stay in admin_users.
C26_SelfAndSuperAdminsStay ==
  [][ /\ (user # NoUser /\ adminUsers[user] # NoRole) => adminUsers'[user] # NoRole
      /\ \A u \in Uids : adminUsers[u] = "super_admin" => adminUsers'[u] = "super_admin"
    ]_vars

-----------------------------------------------------------------------------
(* Properties of the account functions                                     *)

\* C27: after any sequence of createUser, updateUserRole and deleteUser
\* calls, failed ones included, every auth account has its user record with
\* the role of its custom claim, and every user record belongs to an auth
\* account.
C27_OneRolePerAccount ==
  \A u \in Uids :
    /\ u \in authUsers => (userDocs[u] # NoRole /\ claims[u] = userDocs[u])
    /\ userDocs[u] # NoRole => u \in authUsers

-----------------------------------------------------------------------------
(* Properties of the bootstrap in its steps                                *)

\* C28: bootstrapAdminUser never overwrites an existing role record,
\* whatever createUser or updateUserRole did between its read and its write:
\* no step of a bootstrap changes the role of a record that exists, so a
\* record with the role admin is never left with content_manager by it.
C28_BootstrapKeepsRecords ==
  [][ BootStep => \A u \in Uids : userDocs[u] # NoRole => userDocs'[u] = userDocs[u] ]_vars

-----------------------------------------------------------------------------
(* Properties of the admin page after sign-out                             *)

\* C29: whenever no user is signed in and no fetchUsers is pending, the
\* admin page holds no menu items and no user list: an answer that arrives
\* after the sign-out repopulates neither.
C29_SignedOutHoldsNothing ==
  (user = NoUser /\ \A m \in net : m.to # "fetchUsers")
    => (users = <<>> /\ items = <<>>)

-----------------------------------------------------------------------------
(* Properties of the auto refresh                                          *)

\* C30: useAutoRefresh reloads the page at most once a day: after a reload
\* in the window from 03:00 to 03:04 the check of the next mount within the
\* window triggers no further reload.
C30_OneReloadADay == reloads <= 1

====
